---- MODULE Spec2Model ----
(***************************************************************************)
(* lazybeads: the presentation and interaction engine of the terminal UI.  *)
(* The Bubble Tea model (app.Model) is one record, m; every message the    *)
(* event loop delivers is one atomic step Update(m, msg).  Strings are     *)
(* sequences of one-character strings so that identifier parsing and the   *)
(* text filter are computed as the code computes them.                     *)
(***************************************************************************)
EXTENDS Integers, Sequences, FiniteSets, TLC

VARIABLES
    m,          \* app.Model: the whole UI state (one record, fields as in the struct)
    inflight,   \* number of loadTasks commands started whose tasksLoadedMsg is not yet processed
    ticks,      \* number of pollTick timers armed and not yet delivered
    pending,    \* number of delete commands started whose taskDeletedMsg is not yet processed
    now,        \* wall clock in milliseconds (time.Now())
    quitting,   \* tea.Quit has been returned
    panicked,   \* a run-time panic (integer divide by zero) ended the program
    env,        \* the environment of the process: two variables, the home directory, the files
    cfg         \* what config.Load returned last: [loaded, err, CustomCommands]

vars == <<m, inflight, ticks, pending, now, quitting, panicked, env, cfg>>

----------------------------------------------------------------------------
(* Bounds of the model (not program constants) *)

MaxInflight == 2
MaxPending == 1
MaxClock == 450
MaxQueryLen == 2

(* Program constants *)

pollInterval == 2000
doubleClickThreshold == 300
totalColumns == 5
minColWidth == 30
cardHeight == 4
colTop == 1
collapsedHeight == 3
pageStep == 10

----------------------------------------------------------------------------
(* Enumerations *)

ViewList == "ViewList"
ViewDetail == "ViewDetail"
ViewForm == "ViewForm"
ViewHelp == "ViewHelp"
ViewConfirm == "ViewConfirm"
ViewEditTitle == "ViewEditTitle"
ViewEditStatus == "ViewEditStatus"
ViewEditPriority == "ViewEditPriority"
ViewEditType == "ViewEditType"
ViewFilter == "ViewFilter"
ViewAddComment == "ViewAddComment"
ViewBoard == "ViewBoard"
ViewAddBlocker == "ViewAddBlocker"
ViewRemoveBlocker == "ViewRemoveBlocker"
ViewEditText == "ViewEditText"

FocusInProgress == 0
FocusOpen == 1
FocusClosed == 2

FilterAll == "All"
FilterOpen == "Open"
FilterClosed == "Closed"
FilterReady == "Ready"

SortDefault == 0
SortCreatedAsc == 1
SortCreatedDesc == 2
SortPriority == 3
SortUpdated == 4
sortModeCount == 5
\* the comparator of sortClosedTasks, which ignores the sort mode
SortClosedAt == -1

----------------------------------------------------------------------------
(* Strings *)

EmptyStr == <<>>

LowerOf(c) ==
    CASE c = "A" -> "a"
      [] c = "B" -> "b"
      [] c = "F" -> "f"
      [] c = "X" -> "x"
      [] OTHER -> c

\* strings.ToLower
ToLower(s) == [i \in 1..Len(s) |-> LowerOf(s[i])]

\* strings.Contains
Contains(s, sub) ==
    \E i \in 0..(Len(s) - Len(sub)) : SubSeq(s, i + 1, i + Len(sub)) = sub

\* strings.LastIndex for a one-character separator: 0-based, -1 when absent
LastIndex(s, c) ==
    LET hits == {i \in 1..Len(s) : s[i] = c}
    IN  IF hits = {} THEN -1
        ELSE (CHOOSE i \in hits : \A j \in hits : j <= i) - 1

\* strings.Count for a one-character separator
Count(s, c) == Cardinality({i \in 1..Len(s) : s[i] = c})

\* strings.TrimSpace
RECURSIVE TrimLeft(_)
TrimLeft(s) == IF s # <<>> /\ Head(s) = " " THEN TrimLeft(Tail(s)) ELSE s

RECURSIVE TrimRight(_)
TrimRight(s) ==
    IF s # <<>> /\ s[Len(s)] = " " THEN TrimRight(SubSeq(s, 1, Len(s) - 1)) ELSE s

TrimSpace(s) == TrimRight(TrimLeft(s))

\* ParentID cutting at the first dot
ParentID_FirstDot(id) ==
    IF Count(id, ".") = 0 THEN EmptyStr
    ELSE SubSeq(id, 1, (CHOOSE i \in 1..Len(id) : id[i] = "." /\ \A j \in 1..(i - 1) : id[j] # ".") - 1)

\* models.ParentID: the identifier before the last dot, "" when there is no dot
ParentID(id) ==
    LET lastDot == LastIndex(id, ".")
    IN  IF lastDot = -1 THEN EmptyStr ELSE SubSeq(id, 1, lastDot)

\* models.Depth
Depth(id) == Count(id, ".")

----------------------------------------------------------------------------
(* Package config.  A path is the sequence of its elements; an environment variable
   is [set, value]; a file is [kind, commands] with kind yaml, invalid or unreadable,
   and the commands of a yaml file give each context as [given, value] *)

Unset == [set |-> FALSE, value |-> <<>>]

SetTo(path) == [set |-> TRUE, value |-> path]

\* os.Getenv: the value, "" when the variable is not set
Getenv(variable) == IF variable.set THEN variable.value ELSE <<>>

\* filepath.Join: the non-empty elements, in order
Join(dir, elems) == dir \o elems

\* config.DefaultConfigPath; os.UserConfigDir fails when there is no home directory
DefaultConfigPath(e) ==
    IF Getenv(e.XDG_CONFIG_HOME) # <<>>
    THEN Join(Getenv(e.XDG_CONFIG_HOME), <<"lazybeads", "config.yml">>)
    ELSE IF ~e.HOME.set
    THEN Join(<<>>, <<".config", "lazybeads", "config.yml">>)
    ELSE Join(Join(Getenv(e.HOME), <<".config">>), <<"lazybeads", "config.yml">>)

\* ConfigPath looking at XDG_CONFIG_HOME before LAZYBEADS_CONFIG
ConfigPath_XdgFirst(e) ==
    IF Getenv(e.XDG_CONFIG_HOME) # <<>> THEN DefaultConfigPath(e)
    ELSE IF Getenv(e.LAZYBEADS_CONFIG) # <<>> THEN Getenv(e.LAZYBEADS_CONFIG)
    ELSE DefaultConfigPath(e)

\* config.ConfigPath
ConfigPath(e) ==
    IF Getenv(e.LAZYBEADS_CONFIG) # <<>> THEN Getenv(e.LAZYBEADS_CONFIG)
    ELSE DefaultConfigPath(e)

\* yaml.Unmarshal into []CustomCommand: a context that is not given stays the zero string
Unmarshal(commands) ==
    [i \in 1..Len(commands) |->
        [Key |-> commands[i].key,
         Context |-> IF commands[i].context.given THEN commands[i].context.value ELSE ""]]

\* the loop of Load that leaves the contexts as the file gave them
withDefaultContext_Keep(commands) == commands

\* the loop of Load over cfg.CustomCommands
withDefaultContext(commands) ==
    [i \in 1..Len(commands) |->
        IF commands[i].Context = "" THEN [commands[i] EXCEPT !.Context = "list"]
        ELSE commands[i]]

NotLoaded == [loaded |-> FALSE, err |-> FALSE, CustomCommands |-> <<>>]

Loaded(err, commands) == [loaded |-> TRUE, err |-> err, CustomCommands |-> commands]

\* config.Load
Load(e) ==
    IF ConfigPath(e) \notin DOMAIN e.files THEN Loaded(FALSE, <<>>)
    ELSE IF e.files[ConfigPath(e)].kind # "yaml" THEN Loaded(TRUE, <<>>)
    ELSE Loaded(FALSE, withDefaultContext(Unmarshal(e.files[ConfigPath(e)].commands)))

\* the environment of the interaction specifications: nothing set but the home
\* directory, and a configuration file with one command, whose context is not given
homeDir == <<"home", "u">>

OneCommand == <<[key |-> "ctrl+t", context |-> [given |-> FALSE, value |-> ""]]>>

PlainEnv ==
    [LAZYBEADS_CONFIG |-> Unset, XDG_CONFIG_HOME |-> Unset, HOME |-> SetTo(homeDir),
     files |-> (<<"home", "u", ".config", "lazybeads", "config.yml">>
                    :> [kind |-> "yaml", commands |-> OneCommand])]

----------------------------------------------------------------------------
(* Tasks *)

NoTime == 0

Task(id, title, status, priority, created, updated, closedAt, blockedBy) ==
    [ID |-> id, Title |-> title, Status |-> status, Priority |-> priority,
     CreatedAt |-> created, UpdatedAt |-> updated, ClosedAt |-> closedAt,
     BlockedBy |-> blockedBy]

\* Task.IsBlocked
IsBlocked(t) == Len(t.BlockedBy) > 0

\* nil *models.Task
NoTask == [ID |-> EmptyStr]

IDsOf(tasks) == {tasks[i].ID : i \in 1..Len(tasks)}

----------------------------------------------------------------------------
(* Sorting: the comparators of distributeTasks and sort.Slice *)

\* the default comparator with equal priorities ordered least recently updated first
LessDefault_OldestFirst(a, b) ==
    IF a.Priority # b.Priority THEN a.Priority < b.Priority
    ELSE a.UpdatedAt < b.UpdatedAt

\* the less function of SortDefault: priority ascending, then updated descending
LessDefault(a, b) ==
    IF a.Priority # b.Priority THEN a.Priority < b.Priority
    ELSE a.UpdatedAt > b.UpdatedAt

\* a closed-time comparator that puts the issues without a closing time first
LessClosed_NilFirst(a, b) ==
    IF a.ClosedAt = NoTime /\ b.ClosedAt = NoTime THEN FALSE
    ELSE IF a.ClosedAt = NoTime THEN TRUE
    ELSE IF b.ClosedAt = NoTime THEN FALSE
    ELSE a.ClosedAt > b.ClosedAt

\* the less function of sortClosedTasks: closing time descending, nil last
LessClosed(a, b) ==
    IF a.ClosedAt = NoTime /\ b.ClosedAt = NoTime THEN FALSE
    ELSE IF a.ClosedAt = NoTime THEN FALSE
    ELSE IF b.ClosedAt = NoTime THEN TRUE
    ELSE a.ClosedAt > b.ClosedAt

\* the less function of each sort mode (sortTasks) and of sortClosedTasks
Less(kind, a, b) ==
    CASE kind = SortDefault -> LessDefault(a, b)
      [] kind = SortCreatedAsc -> a.CreatedAt < b.CreatedAt
      [] kind = SortCreatedDesc -> a.CreatedAt > b.CreatedAt
      [] kind = SortPriority -> a.Priority < b.Priority
      [] kind = SortUpdated -> a.UpdatedAt > b.UpdatedAt
      [] kind = SortClosedAt -> LessClosed(a, b)
      [] OTHER -> FALSE

Swap(s, i, j) == [s EXCEPT ![i] = s[j], ![j] = s[i]]

\* inner loop of the insertion sort: for j := i; j > a && less(j, j-1); j--
RECURSIVE SiftLeft(_, _, _)
SiftLeft(kind, s, j) ==
    IF j > 1 /\ Less(kind, s[j], s[j - 1])
    THEN SiftLeft(kind, Swap(s, j, j - 1), j - 1)
    ELSE s

RECURSIVE InsertionSort(_, _, _)
InsertionSort(kind, s, i) ==
    IF i > Len(s) THEN s ELSE InsertionSort(kind, SiftLeft(kind, s, i), i + 1)

\* sort.Slice(tasks, less): for slices of at most 12 elements (every slice of
\* this model) the Go runtime sorts by insertion
SortSlice(kind, s) == InsertionSort(kind, s, 2)

----------------------------------------------------------------------------
(* Tree flattening *)

\* TaskItem with the depth of the identifier (its number of dots) for the tree depth
TaskItem_GlobalDepth(t, depth, hasChildren, expanded) ==
    [task |-> t, depth |-> Depth(t.ID), hasChildren |-> hasChildren, expanded |-> expanded]

TaskItem(t, depth, hasChildren, expanded) ==
    [task |-> t, depth |-> depth, hasChildren |-> hasChildren, expanded |-> expanded]

\* the grouping of flattenTree with only the dot-free identifiers among the roots, so that
\* a task whose parent is not in the set is in no group
ChildrenOf_DropOrphans(tasks, parentKey) ==
    LET IsRoot(t) == ParentID(t.ID) = EmptyStr
        IsChild(t) == ParentID(t.ID) = parentKey
    IN  IF parentKey = EmptyStr THEN SelectSeq(tasks, IsRoot) ELSE SelectSeq(tasks, IsChild)

\* the group of key parentKey in childrenOf: "" holds the tasks with no parent in the set
ChildrenOf(tasks, parentKey) ==
    LET taskByID == IDsOf(tasks)
        InSetParent(t) == ParentID(t.ID) # EmptyStr /\ ParentID(t.ID) \in taskByID
        IsRoot(t) == ~InSetParent(t)
        IsChild(t) == InSetParent(t) /\ ParentID(t.ID) = parentKey
    IN  IF parentKey = EmptyStr THEN SelectSeq(tasks, IsRoot) ELSE SelectSeq(tasks, IsChild)

RECURSIVE walk(_, _, _, _, _)
RECURSIVE walkGroup(_, _, _, _, _, _)

\* walkGroup leaving a collapsed node itself out of the sequence
RECURSIVE walkGroup_HideNode(_, _, _, _, _, _)
walkGroup_HideNode(tasks, kind, collapsedNodes, group, i, depth) ==
    IF i > Len(group) THEN <<>>
    ELSE LET t == group[i]
             hasChildren == Len(ChildrenOf(tasks, t.ID)) > 0
             collapsed == t.ID \in collapsedNodes
         IN  (IF hasChildren /\ collapsed THEN <<>>
              ELSE <<TaskItem(t, depth, hasChildren, hasChildren)>>)
             \o (IF hasChildren /\ ~collapsed
                 THEN walk(tasks, kind, collapsedNodes, t.ID, depth + 1)
                 ELSE <<>>)
             \o walkGroup_HideNode(tasks, kind, collapsedNodes, group, i + 1, depth)

\* the body of walk's loop over one sorted sibling group, from position i on
walkGroup(tasks, kind, collapsedNodes, group, i, depth) ==
    IF i > Len(group) THEN <<>>
    ELSE LET t == group[i]
             hasChildren == Len(ChildrenOf(tasks, t.ID)) > 0
             collapsed == t.ID \in collapsedNodes
             item == TaskItem(t, depth, hasChildren, hasChildren /\ ~collapsed)
             below == IF hasChildren /\ ~collapsed
                      THEN walk(tasks, kind, collapsedNodes, t.ID, depth + 1)
                      ELSE <<>>
         IN  <<item>> \o below \o walkGroup(tasks, kind, collapsedNodes, group, i + 1, depth)

\* walk taking each sibling group in the order of the snapshot
walk_Unsorted(tasks, kind, collapsedNodes, parentKey, depth) ==
    walkGroup(tasks, kind, collapsedNodes, ChildrenOf(tasks, parentKey), 1, depth)

walk(tasks, kind, collapsedNodes, parentKey, depth) ==
    walkGroup(tasks, kind, collapsedNodes,
              SortSlice(kind, ChildrenOf(tasks, parentKey)), 1, depth)

\* flattenTree walking below collapsed nodes as well
flattenTree_NoCollapse(tasks, kind, collapsedNodes) == walk(tasks, kind, {}, EmptyStr, 0)

\* Model.flattenTree
flattenTree(tasks, kind, collapsedNodes) == walk(tasks, kind, collapsedNodes, EmptyStr, 0)

\* the keys of the map childrenOf: the empty key when there are roots, and every parent
\* that has a child in the set
GroupKeys(tasks) == {k \in {EmptyStr} \cup IDsOf(tasks) : ChildrenOf(tasks, k) # <<>>}

\* the map childrenOf before its groups are sorted
childrenOfMap(tasks) == [k \in GroupKeys(tasks) |-> ChildrenOf(tasks, k)]

\* the sorting loop sorting only the group it visits first
sortGroup_FirstOnly(kind, childrenOf, key, i) ==
    IF i = 1 THEN [childrenOf EXCEPT ![key] = SortSlice(kind, @)] ELSE childrenOf

\* one round of the loop "for key := range childrenOf": the i-th key visited is sorted
sortGroup(kind, childrenOf, key, i) == [childrenOf EXCEPT ![key] = SortSlice(kind, @)]

\* the sorting loop from its i-th round on; order is the order in which the runtime
\* hands out the keys of the map, which Go leaves unspecified
RECURSIVE sortGroups(_, _, _, _)
sortGroups(kind, childrenOf, order, i) ==
    IF i > Len(order) THEN childrenOf
    ELSE sortGroups(kind, sortGroup(kind, childrenOf, order[i], i), order, i + 1)

GroupOf(childrenOf, key) == IF key \in DOMAIN childrenOf THEN childrenOf[key] ELSE <<>>

\* the closure walk of flattenTree over the sorted map, from position i of a group on
RECURSIVE walkMap(_, _, _, _, _)
walkMap(childrenOf, collapsedNodes, parentKey, i, depth) ==
    IF i > Len(GroupOf(childrenOf, parentKey)) THEN <<>>
    ELSE LET t == GroupOf(childrenOf, parentKey)[i]
             hasChildren == Len(GroupOf(childrenOf, t.ID)) > 0
             collapsed == t.ID \in collapsedNodes
         IN  <<TaskItem(t, depth, hasChildren, hasChildren /\ ~collapsed)>>
             \o (IF hasChildren /\ ~collapsed
                 THEN walkMap(childrenOf, collapsedNodes, t.ID, 1, depth + 1)
                 ELSE <<>>)
             \o walkMap(childrenOf, collapsedNodes, parentKey, i + 1, depth)

\* Model.flattenTree with the iteration order of the map made explicit
flattenTreeIn(tasks, kind, collapsedNodes, order) ==
    walkMap(sortGroups(kind, childrenOfMap(tasks), order, 1), collapsedNodes, EmptyStr, 1, 0)

----------------------------------------------------------------------------
(* Board columns *)

\* BoardColumnOf with the ready test ahead of the blocker test
BoardColumnOf_ReadyFirst(t, readyIDs) ==
    CASE t.Status = "open" ->
            IF t.ID \in readyIDs THEN 2
            ELSE IF IsBlocked(t) THEN 0
            ELSE 1
      [] t.Status = "in_progress" -> 3
      [] t.Status = "closed" -> 4
      [] OTHER -> -1

\* the column getBoardColumns appends a task to; -1: none
BoardColumnOf(t, readyIDs) ==
    CASE t.Status = "open" ->
            IF IsBlocked(t) THEN 0
            ELSE IF t.ID \in readyIDs THEN 2
            ELSE 1
      [] t.Status = "in_progress" -> 3
      [] t.Status = "closed" -> 4
      [] OTHER -> -1

\* getBoardColumns with the Open column taking every unblocked open task, ready or not
getBoardColumns_ReadyTwice(tasks, readyIDs) ==
    [c \in 0..(totalColumns - 1) |->
        LET InCol(t) == \/ BoardColumnOf(t, readyIDs) = c
                        \/ (c = 1 /\ BoardColumnOf(t, readyIDs) = 2)
        IN  SelectSeq(tasks, InCol)]

\* Model.getBoardColumns
getBoardColumns(tasks, readyIDs) ==
    [c \in 0..(totalColumns - 1) |->
        LET InCol(t) == BoardColumnOf(t, readyIDs) = c IN SelectSeq(tasks, InCol)]

\* the visible column count of handleBoardMouse and ensureBoardColumnVisible
visibleCols(width) ==
    LET v == width \div minColWidth
    IN  IF v > totalColumns THEN totalColumns ELSE IF v < 1 THEN 1 ELSE v

----------------------------------------------------------------------------
(* Go integer arithmetic: / truncates toward zero, % takes the dividend's sign *)

GoDiv(a, b) == IF a >= 0 THEN a \div b ELSE -((-a) \div b)

GoMod(a, b) == a - b * GoDiv(a, b)

Min(a, b) == IF a < b THEN a ELSE b

----------------------------------------------------------------------------
(* PanelModel *)

\* NewPanel
NewPanel ==
    [items |-> <<>>, cursor |-> 0, focused |-> FALSE, collapsed |-> FALSE,
     width |-> 0, height |-> 0]

\* PanelModel.SetFocus
SetFocus(p, focused) == [p EXCEPT !.focused = focused]

\* PanelModel.SetCollapsed
SetCollapsed(p, collapsed) == [p EXCEPT !.collapsed = collapsed]

\* PanelModel.SetSize
SetSize(p, width, height) == [p EXCEPT !.width = width, !.height = height]

\* PanelModel.TaskCount
TaskCount(p) == Len(p.items)

\* PanelModel.SelectedTask: the identifier of the task under the cursor, "" for nil
SelectedTask(p) ==
    IF Len(p.items) = 0 THEN EmptyStr
    ELSE IF p.cursor >= 0 /\ p.cursor < Len(p.items) THEN p.items[p.cursor + 1].task.ID
    ELSE EmptyStr

\* list.Model.CursorUp
CursorUp(p) == [p EXCEPT !.cursor = IF p.cursor - 1 < 0 THEN 0 ELSE p.cursor - 1]

\* list.Model.CursorDown
CursorDown(p) ==
    LET n == Len(p.items)
        c == p.cursor + 1
    IN  [p EXCEPT !.cursor = IF c < n THEN c ELSE IF c > n THEN 0 ELSE n - 1]

\* list.Model.Select
Select(p, index) == [p EXCEPT !.cursor = index]

RECURSIVE Repeat(_, _, _)
Repeat(p, n, down) ==
    IF n = 0 THEN p ELSE Repeat(IF down THEN CursorDown(p) ELSE CursorUp(p), n - 1, down)

NavKeys == {"k", "up", "j", "down", "g", "G", "ctrl+u", "pgup", "ctrl+d", "pgdown"}

\* HandleKey with the Bottom key selecting the last index of an empty panel as well
HandleKey_NoGuard(p, key) ==
    IF ~p.focused THEN [handled |-> FALSE, p |-> p]
    ELSE CASE key \in {"k", "up"} -> [handled |-> TRUE, p |-> CursorUp(p)]
           [] key \in {"j", "down"} -> [handled |-> TRUE, p |-> CursorDown(p)]
           [] key = "g" -> [handled |-> TRUE, p |-> Select(p, 0)]
           [] key = "G" -> [handled |-> TRUE, p |-> Select(p, Len(p.items) - 1)]
           [] key \in {"ctrl+u", "pgup"} -> [handled |-> TRUE, p |-> Repeat(p, pageStep, FALSE)]
           [] key \in {"ctrl+d", "pgdown"} -> [handled |-> TRUE, p |-> Repeat(p, pageStep, TRUE)]
           [] OTHER -> [handled |-> FALSE, p |-> p]

\* PanelModel.HandleKey: [handled, p]
HandleKey(p, key) ==
    IF ~p.focused THEN [handled |-> FALSE, p |-> p]
    ELSE CASE key \in {"k", "up"} -> [handled |-> TRUE, p |-> CursorUp(p)]
           [] key \in {"j", "down"} -> [handled |-> TRUE, p |-> CursorDown(p)]
           [] key = "g" -> [handled |-> TRUE, p |-> Select(p, 0)]
           [] key = "G" ->
                [handled |-> TRUE,
                 p |-> IF Len(p.items) > 0 THEN Select(p, Len(p.items) - 1) ELSE p]
           [] key \in {"ctrl+u", "pgup"} -> [handled |-> TRUE, p |-> Repeat(p, pageStep, FALSE)]
           [] key \in {"ctrl+d", "pgdown"} -> [handled |-> TRUE, p |-> Repeat(p, pageStep, TRUE)]
           [] OTHER -> [handled |-> FALSE, p |-> p]

\* first position (0-based) of identifier id in items, -1 when absent
IndexOfID(items, id) ==
    LET hits == {i \in 1..Len(items) : items[i].task.ID = id}
    IN  IF hits = {} THEN -1 ELSE (CHOOSE i \in hits : \A j \in hits : i <= j) - 1

\* SetTreeItems keeping the cursor index instead of the selected identifier
SetTreeItems_KeepIndex(p, items) ==
    LET near == IF Len(items) = 0 THEN 0
                ELSE IF p.cursor > Len(items) - 1 THEN Len(items) - 1
                ELSE IF p.cursor < 0 THEN 0
                ELSE p.cursor
    IN  [p EXCEPT !.items = items, !.cursor = near]

\* PanelModel.SetTreeItems: replaces the sequence and reseats the cursor on the
\* previously selected identifier; when it is gone, on the nearest valid index
SetTreeItems(p, items) ==
    LET prev == SelectedTask(p)
        at == IF prev = EmptyStr THEN -1 ELSE IndexOfID(items, prev)
        near == IF Len(items) = 0 THEN 0
                ELSE IF p.cursor > Len(items) - 1 THEN Len(items) - 1
                ELSE IF p.cursor < 0 THEN 0
                ELSE p.cursor
    IN  [p EXCEPT !.items = items, !.cursor = IF at >= 0 THEN at ELSE near]

\* PanelModel.SelectIndex: a click below the last item changes no cursor
SelectIndex(p, index) ==
    IF index >= 0 /\ index < Len(p.items) THEN [p EXCEPT !.cursor = index] ELSE p

\* PanelModel.ScrollBy: moves the cursor by amount, clamped to the sequence
ScrollBy(p, amount) ==
    LET n == Len(p.items)
        c == p.cursor + amount
    IN  [p EXCEPT !.cursor = IF n = 0 THEN 0 ELSE IF c < 0 THEN 0 ELSE IF c > n - 1 THEN n - 1 ELSE c]

----------------------------------------------------------------------------
(* Model helpers *)

\* the panel a PanelFocus value names
PanelOf(mm, f) ==
    CASE f = FocusInProgress -> mm.inProgressPanel
      [] f = FocusOpen -> mm.openPanel
      [] f = FocusClosed -> mm.closedPanel

WithPanel(mm, f, p) ==
    CASE f = FocusInProgress -> [mm EXCEPT !.inProgressPanel = p]
      [] f = FocusOpen -> [mm EXCEPT !.openPanel = p]
      [] f = FocusClosed -> [mm EXCEPT !.closedPanel = p]
      [] OTHER -> mm

\* Model.getSelectedTask
getSelectedTask(mm) ==
    IF mm.focusedPanel \in {FocusInProgress, FocusOpen, FocusClosed}
    THEN SelectedTask(PanelOf(mm, mm.focusedPanel))
    ELSE EmptyStr

\* Model.isInProgressVisible
isInProgressVisible(mm) == TaskCount(mm.inProgressPanel) > 0

\* Model.getVisiblePanels
getVisiblePanels(mm) ==
    (IF isInProgressVisible(mm) THEN <<FocusInProgress>> ELSE <<>>)
        \o <<FocusOpen>> \o <<FocusClosed>>

\* m.selected = m.getSelectedTask()
withSelected(mm) == [mm EXCEPT !.selected = getSelectedTask(mm)]

AtLeast(a, lo) == IF a < lo THEN lo ELSE a

\* the tail of updateSizes: every expanded panel gets panelHeight rows, the first
\* remainder of them one more; a hidden In Progress panel gets none and a collapsed
\* Closed panel collapsedHeight
setPanelSizes(mm, panelWidth, panelHeight, remainder) ==
    LET ipVisible == isInProgressVisible(mm)
        H(idx) == IF idx < remainder THEN panelHeight + 1 ELSE panelHeight
        openIdx == IF ipVisible THEN 1 ELSE 0
    IN  [mm EXCEPT
            !.inProgressPanel = SetSize(@, panelWidth, IF ipVisible THEN H(0) ELSE 0),
            !.openPanel = SetSize(@, panelWidth, H(openIdx)),
            !.closedPanel = SetSize(@, panelWidth,
                                    IF mm.closedPanel.collapsed THEN collapsedHeight
                                    ELSE H(openIdx + 1))]

\* the division of availableHeight among the expanded panels
splitHeight(mm, panelWidth, availableHeight, numExpandedPanels) ==
    setPanelSizes(mm, panelWidth,
                  AtLeast(GoDiv(availableHeight, numExpandedPanels), 4),
                  GoMod(availableHeight, numExpandedPanels))

\* the height left to numPanels stacked panels that share their borders
stackPanels(mm, numPanels) ==
    LET contentHeight == AtLeast(mm.height - 2, 0)
        joinedHeight == AtLeast(contentHeight - (numPanels - 1), numPanels)
        panelWidth == IF mm.width >= 80 THEN GoDiv(mm.width, 2) - 1 ELSE mm.width - 2
    IN  IF mm.closedPanel.collapsed
        THEN splitHeight(mm, panelWidth, joinedHeight - collapsedHeight,
                         AtLeast(numPanels - 1, 1))
        ELSE splitHeight(mm, panelWidth, joinedHeight, AtLeast(numPanels, 1))

\* Model.updateSizes (the panel heights; viewport and form widths are not modelled)
updateSizes(mm) == stackPanels(mm, AtLeast(Len(getVisiblePanels(mm)), 1))

\* the text filter of distributeTasks
MatchesQuery(t, filterQuery) ==
    LET filterLower == ToLower(filterQuery)
    IN  filterLower = EmptyStr
        \/ Contains(ToLower(t.Title), filterLower)
        \/ Contains(ToLower(t.ID), filterLower)

\* the quick filter with the Open preset keeping closed issues as well
MatchesMode_OpenKeepsClosed(t, filterMode) ==
    CASE filterMode = FilterClosed -> t.Status = "closed"
      [] filterMode = FilterReady -> ~(t.Status = "closed" \/ Len(t.BlockedBy) > 0)
      [] OTHER -> TRUE

\* the quick filter of distributeTasks
MatchesMode(t, filterMode) ==
    CASE filterMode = FilterOpen -> t.Status # "closed"
      [] filterMode = FilterClosed -> t.Status = "closed"
      [] filterMode = FilterReady -> ~(t.Status = "closed" \/ Len(t.BlockedBy) > 0)
      [] OTHER -> TRUE

\* the bucket of one status in distributeTasks
Bucket(mm, status) ==
    LET Keep(t) == MatchesQuery(t, mm.filterQuery) /\ MatchesMode(t, mm.filterMode)
                   /\ t.Status = status
    IN  SelectSeq(mm.tasks, Keep)

\* the end of distributeTasks: the focus leaves an In Progress panel that became empty
\* a distributeTasks that leaves the focus on an In Progress panel without issues
leaveEmptyInProgress_Stay(mm, inProgress) == mm

\* the focus move at the end of distributeTasks
leaveEmptyInProgress(mm, inProgress) ==
    IF mm.focusedPanel = FocusInProgress /\ Len(inProgress) = 0
    THEN withSelected([mm EXCEPT !.inProgressPanel = SetFocus(@, FALSE),
                                 !.focusedPanel = FocusOpen,
                                 !.openPanel = SetFocus(@, TRUE)])
    ELSE mm

\* the three SetTreeItems calls of distributeTasks
setPanelItems(mm, inProgress, open, closed) ==
    [mm EXCEPT
        !.inProgressPanel =
            SetTreeItems(@, flattenTree(inProgress, mm.sortMode, mm.collapsedNodes)),
        !.openPanel =
            SetTreeItems(@, flattenTree(open, mm.sortMode, mm.collapsedNodes)),
        !.closedPanel =
            SetTreeItems(@, flattenTree(closed, SortClosedAt, mm.collapsedNodes))]

\* distributeTasks once the three buckets are filled
showBuckets(mm, inProgress, open, closed) ==
    updateSizes(leaveEmptyInProgress(setPanelItems(mm, inProgress, open, closed), inProgress))

\* Model.distributeTasks
distributeTasks(mm) ==
    showBuckets(mm, Bucket(mm, "in_progress"), Bucket(mm, "open"), Bucket(mm, "closed"))

\* the collapse/expand of the Closed panel on a focus transfer
\* the Closed panel expanding on gaining the focus but never collapsing on losing it
closedPanelFollowsFocus_ExpandOnly(mm, wasClosedFocused) ==
    LET nowClosedFocused == mm.focusedPanel = FocusClosed
    IN  IF ~wasClosedFocused /\ nowClosedFocused
        THEN updateSizes([mm EXCEPT !.closedPanel = SetCollapsed(@, FALSE)])
        ELSE mm

closedPanelFollowsFocus(mm, wasClosedFocused) ==
    LET nowClosedFocused == mm.focusedPanel = FocusClosed
    IN  IF wasClosedFocused # nowClosedFocused
        THEN updateSizes([mm EXCEPT !.closedPanel = SetCollapsed(@, ~nowClosedFocused)])
        ELSE mm

IndexIn(s, x) ==
    LET hits == {i \in 1..Len(s) : s[i] = x}
    IN  IF hits = {} THEN -1 ELSE (CHOOSE i \in hits : \A j \in hits : i <= j) - 1

\* a focus transfer that leaves the flag of the panel it leaves set
blurFocused_Keep(mm) == mm

\* the current panel loses the focus
blurFocused(mm) ==
    WithPanel(mm, mm.focusedPanel, SetFocus(PanelOf(mm, mm.focusedPanel), FALSE))

\* panel target becomes the focused panel
focusOn(mm, target) ==
    WithPanel([mm EXCEPT !.focusedPanel = target], target, SetFocus(PanelOf(mm, target), TRUE))

\* the focus transfer shared by cyclePanelFocus and focusPanelByType
transferFocus(mm, target) ==
    withSelected(closedPanelFollowsFocus(focusOn(blurFocused(mm), target),
                                         mm.focusedPanel = FocusClosed))

\* a cycle step that never wraps around below the first visible panel
cycleTarget_NoWrap(visiblePanels, focusedPanel, direction) ==
    visiblePanels[AtLeast(GoMod(AtLeast(IndexIn(visiblePanels, focusedPanel), 0) + direction,
                                Len(visiblePanels)), 0) + 1]

\* the panel direction steps away from the focused one among the visible panels
cycleTarget(visiblePanels, focusedPanel, direction) ==
    visiblePanels[GoMod(AtLeast(IndexIn(visiblePanels, focusedPanel), 0) + direction
                          + Len(visiblePanels), Len(visiblePanels)) + 1]

\* Model.cyclePanelFocus
cyclePanelFocus(mm, direction) ==
    IF Len(getVisiblePanels(mm)) = 0 THEN mm
    ELSE transferFocus(mm, cycleTarget(getVisiblePanels(mm), mm.focusedPanel, direction))

\* Model.focusPanelByType
focusPanelByType(mm, panel) == transferFocus(mm, panel)

\* Model.selectItemInPanel
selectItemInPanel(mm, panel, index) ==
    withSelected(WithPanel(mm, panel, SelectIndex(PanelOf(mm, panel), index)))

\* Model.scrollFocusedPanel
scrollFocusedPanel(mm, amount) ==
    withSelected(WithPanel(mm, mm.focusedPanel,
                           ScrollBy(PanelOf(mm, mm.focusedPanel), amount)))

\* Model.getBoardSelectedTask
getBoardSelectedTask(mm) ==
    LET columns == getBoardColumns(mm.tasks, mm.readyIDs)
    IN  IF mm.boardColumn >= 0 /\ mm.boardColumn < totalColumns
        THEN LET tasks == columns[mm.boardColumn]
             IN  IF mm.boardRow >= 0 /\ mm.boardRow < Len(tasks)
                 THEN tasks[mm.boardRow + 1].ID
                 ELSE EmptyStr
        ELSE EmptyStr

\* Model.ensureBoardColumnVisible
ensureBoardColumnVisible(mm) ==
    LET vis == visibleCols(mm.width)
        o1 == IF mm.boardColumn < mm.boardColumnOffset THEN mm.boardColumn
              ELSE mm.boardColumnOffset
        o2 == IF mm.boardColumn >= o1 + vis THEN mm.boardColumn - vis + 1 ELSE o1
        o3 == IF o2 < 0 THEN 0 ELSE o2
        o4 == IF o3 > totalColumns - vis THEN totalColumns - vis ELSE o3
    IN  [mm EXCEPT !.boardColumnOffset = o4]

----------------------------------------------------------------------------
(* The model record and the results of Update *)

ZeroTime == -1

\* app.New
New ==
    [tasks |-> <<>>, selected |-> EmptyStr, loading |-> FALSE,
     mode |-> ViewList, focusedPanel |-> FocusInProgress, width |-> 0, height |-> 0,
     err |-> FALSE,
     inProgressPanel |-> SetFocus(NewPanel, TRUE),
     openPanel |-> NewPanel,
     closedPanel |-> SetCollapsed(NewPanel, TRUE),
     confirmTaskID |-> EmptyStr,
     filterQuery |-> EmptyStr, filterMode |-> FilterAll,
     searchMode |-> FALSE, searchInput |-> EmptyStr,
     sortMode |-> SortDefault,
     boardColumn |-> 0, boardRow |-> 0, boardColumnOffset |-> 0,
     readyIDs |-> {}, previousMode |-> ViewList,
     lastClickTime |-> ZeroTime, lastClickColumn |-> 0, lastClickRow |-> 0,
     collapsedNodes |-> {},
     modalInput |-> EmptyStr, commentInput |-> EmptyStr]

\* what Update returns: the new model and the commands handed to the runtime
Result(mm, cmds) == [m |-> mm, cmds |-> cmds]

NoCmd == <<>>

\* textinput.Model.Update for a key: a printable character is appended, backspace
\* removes the last character, every other message leaves the value alone
TypedChars == {"a", "A", "1", ".", "x", "q", " "}

TextInputUpdate(value, key) ==
    IF key \in TypedChars THEN Append(value, key)
    ELSE IF key = "backspace" /\ Len(value) > 0 THEN SubSeq(value, 1, Len(value) - 1)
    ELSE value

\* the tail of Update ("Update child components"); key is "" for a non-key message
UpdateChildren(mm, key) ==
    CASE mm.mode = ViewList ->
            withSelected(IF mm.searchMode
                         THEN distributeTasks(
                                  [mm EXCEPT !.searchInput = TextInputUpdate(@, key),
                                             !.filterQuery = TextInputUpdate(mm.searchInput, key)])
                         ELSE mm)
      [] mm.mode = ViewEditTitle -> [mm EXCEPT !.modalInput = TextInputUpdate(@, key)]
      [] mm.mode = ViewAddComment -> [mm EXCEPT !.commentInput = TextInputUpdate(@, key)]
      [] OTHER -> mm

\* a detail view that is always closed to the list view
leaveDetail_ToList(mm) == [mm EXCEPT !.mode = ViewList, !.previousMode = ViewList]

\* the return to the view the detail view was opened from
leaveDetail(mm) ==
    [mm EXCEPT !.mode = IF mm.previousMode = ViewBoard THEN ViewBoard ELSE ViewList,
               !.previousMode = ViewList]

----------------------------------------------------------------------------
(* Key handlers *)

\* Model.handleSearchKeys
handleSearchKeys(mm, key) ==
    CASE key = "enter" ->
            Result(distributeTasks([mm EXCEPT !.searchMode = FALSE,
                                              !.filterQuery = TrimSpace(mm.searchInput)]),
                   NoCmd)
      [] key = "backspace" ->
            IF mm.searchInput = EmptyStr
            THEN Result([mm EXCEPT !.searchMode = FALSE], NoCmd)
            ELSE Result(mm, NoCmd)
      [] OTHER -> Result(mm, NoCmd)

\* the quick filter each preset key toggles
PresetOf(key) ==
    CASE key = "o" -> FilterOpen
      [] key = "O" -> FilterClosed
      [] key = "r" -> FilterReady

\* togglePreset without the recomputation of the panels
togglePreset_NoRecompute(mm, preset) ==
    [mm EXCEPT !.filterMode = IF mm.filterMode = preset THEN FilterAll ELSE preset]

\* the toggle of a quick filter preset
togglePreset(mm, preset) ==
    distributeTasks([mm EXCEPT !.filterMode = IF mm.filterMode = preset THEN FilterAll
                                               ELSE preset])

\* the expand/collapse toggle of the selected node (ToggleExpand, the space key)
toggleExpand(mm) ==
    LET p == PanelOf(mm, mm.focusedPanel)
        onItem == Len(p.items) > 0 /\ p.cursor >= 0 /\ p.cursor < Len(p.items)
        item == p.items[p.cursor + 1]
        id == item.task.ID
    IN  IF onItem /\ item.hasChildren
        THEN distributeTasks([mm EXCEPT !.collapsedNodes =
                                 IF id \in @ THEN @ \ {id} ELSE @ \cup {id}])
        ELSE mm

\* the modes the edit keys of the list view open when a task is selected
EditModeOf(key) ==
    CASE key = "e" -> ViewEditTitle
      [] key = "s" -> ViewEditStatus
      [] key = "p" -> ViewEditPriority
      [] key = "t" -> ViewEditType
      [] key \in {"d", "n"} -> ViewEditText
      [] key = "C" -> ViewAddComment

\* the title of the issue id of the snapshot
TitleOf(tasks, id) ==
    LET at == {i \in 1..Len(tasks) : tasks[i].ID = id}
    IN  IF at = {} THEN EmptyStr ELSE tasks[CHOOSE i \in at : TRUE].Title

\* the identifiers blocking the issue id of the snapshot
BlockersOf(tasks, id) ==
    UNION { {tasks[i].BlockedBy[j] : j \in 1..Len(tasks[i].BlockedBy)} :
              i \in {k \in 1..Len(tasks) : tasks[k].ID = id} }

\* the options of the Add Blocker dialog: every other issue that is not closed and
\* does not block the issue already
blockerOptions(tasks, id) ==
    { tasks[i].ID : i \in {k \in 1..Len(tasks) :
                              /\ tasks[k].ID # id
                              /\ tasks[k].Status # "closed"
                              /\ tasks[k].ID \notin BlockersOf(tasks, id)} }

\* the edit keys of handleListKeys with a selected task: the title dialog starts with
\* the title, the comment dialog with an empty input
openDialog(mm, task, key) ==
    CASE key = "e" -> [mm EXCEPT !.mode = ViewEditTitle, !.modalInput = TitleOf(mm.tasks, task)]
      [] key = "C" -> [mm EXCEPT !.mode = ViewAddComment, !.commentInput = EmptyStr]
      [] OTHER -> [mm EXCEPT !.mode = EditModeOf(key)]

\* the keys of the configured custom commands of the list context
CustomKeys == {"ctrl+t"}

\* Model.executeCustomCommand: without a selected task nothing is started, otherwise
\* the rendered command is started with sh -c
executeCustomCommand(mm) ==
    IF getSelectedTask(mm) = EmptyStr THEN Result(mm, NoCmd) ELSE Result(mm, <<"exec">>)

\* Model.handleListKeys
handleListKeys(mm, key) ==
    LET nav == HandleKey(PanelOf(mm, mm.focusedPanel), key)
        task == getSelectedTask(mm)
    IN  IF nav.handled
        THEN Result(withSelected(WithPanel(mm, mm.focusedPanel, nav.p)), NoCmd)
        ELSE CASE key = "enter" ->
                    IF task # EmptyStr
                    THEN Result([mm EXCEPT !.selected = task, !.previousMode = ViewList,
                                           !.mode = ViewDetail], <<"loadComments">>)
                    ELSE Result(mm, NoCmd)
               [] key \in {"a", "c"} -> Result([mm EXCEPT !.mode = ViewForm], NoCmd)
               [] key = "x" ->
                    IF task # EmptyStr
                    THEN Result([mm EXCEPT !.confirmTaskID = task, !.mode = ViewConfirm], NoCmd)
                    ELSE Result(mm, NoCmd)
               [] key \in {"h", "left"} -> Result(cyclePanelFocus(mm, -1), NoCmd)
               [] key \in {"l", "right"} -> Result(cyclePanelFocus(mm, 1), NoCmd)
               [] key = "R" -> Result(mm, <<"loadTasks">>)
               [] key = "?" -> Result([mm EXCEPT !.mode = ViewHelp], NoCmd)
               [] key \in {"e", "s", "p", "t", "d", "n", "C"} ->
                    IF task # EmptyStr
                    THEN Result(openDialog(mm, task, key), NoCmd)
                    ELSE Result(mm, NoCmd)
               [] key = "B" ->
                    IF task = EmptyStr THEN Result(mm, NoCmd)
                    ELSE IF blockerOptions(mm.tasks, task) = {}
                    THEN Result(mm, <<"statusTick">>)
                    ELSE Result([mm EXCEPT !.mode = ViewAddBlocker], NoCmd)
               [] key = "D" ->
                    IF task = EmptyStr THEN Result(mm, NoCmd)
                    ELSE IF BlockersOf(mm.tasks, task) = {}
                    THEN Result(mm, <<"statusTick">>)
                    ELSE Result([mm EXCEPT !.mode = ViewRemoveBlocker], NoCmd)
               [] key = "/" ->
                    Result([mm EXCEPT !.searchMode = TRUE, !.searchInput = mm.filterQuery],
                           NoCmd)
               [] key = "y" ->
                    IF task # EmptyStr THEN Result(mm, <<"clipboard">>) ELSE Result(mm, NoCmd)
               [] key = "S" ->
                    Result(distributeTasks([mm EXCEPT !.sortMode =
                                               (mm.sortMode + 1) % sortModeCount]), NoCmd)
               [] key = "b" ->
                    Result([mm EXCEPT !.boardColumn = 0, !.boardRow = 0,
                                      !.boardColumnOffset = 0, !.mode = ViewBoard], NoCmd)
               [] key \in {"o", "O", "r"} -> Result(togglePreset(mm, PresetOf(key)), NoCmd)
               [] key = "A" ->
                    Result(distributeTasks([mm EXCEPT !.filterMode = FilterAll]), NoCmd)
               [] key = " " -> Result(toggleExpand(mm), NoCmd)
               [] key \in CustomKeys -> executeCustomCommand(mm)
               [] OTHER -> Result(mm, NoCmd)

\* Model.handleDetailKeys
handleDetailKeys(mm, key) ==
    CASE key \in {"esc", "enter"} -> Result(leaveDetail(mm), NoCmd)
      [] key = "?" -> Result([mm EXCEPT !.mode = ViewHelp], NoCmd)
      [] OTHER -> Result(mm, NoCmd)

\* Model.handleHelpKeys (the scroll position of the help viewport is not modelled)
handleHelpKeys(mm, key) ==
    IF key \in {"esc", "?"} THEN Result([mm EXCEPT !.mode = ViewList], NoCmd)
    ELSE Result(mm, NoCmd)

\* Model.handleConfirmKeys
handleConfirmKeys(mm, key) ==
    CASE key \in {"y", "Y"} ->
            IF mm.confirmTaskID # EmptyStr THEN Result(mm, <<"delete">>)
            ELSE Result([mm EXCEPT !.mode = ViewList], NoCmd)
      [] key \in {"n", "N", "esc"} -> Result([mm EXCEPT !.mode = ViewList], NoCmd)
      [] OTHER -> Result(mm, NoCmd)

\* m.selected = m.getBoardSelectedTask()
withBoardSelected(mm) == [mm EXCEPT !.selected = getBoardSelectedTask(mm)]

\* the clamp of the row after a column move
clampBoardRow(mm) ==
    LET count == Len(getBoardColumns(mm.tasks, mm.readyIDs)[mm.boardColumn])
        r1 == IF mm.boardRow >= count THEN count - 1 ELSE mm.boardRow
    IN  [mm EXCEPT !.boardRow = IF r1 < 0 THEN 0 ELSE r1]

\* the column move of the board keys and of the horizontal wheel
moveBoardColumn(mm, delta) ==
    withBoardSelected(ensureBoardColumnVisible(
                          clampBoardRow([mm EXCEPT !.boardColumn = @ + delta])))

\* Model.handleBoardKeys
handleBoardKeys(mm, key) ==
    LET columns == getBoardColumns(mm.tasks, mm.readyIDs)
        columnCount(col) == IF col >= 0 /\ col < totalColumns THEN Len(columns[col]) ELSE 0
        count == columnCount(mm.boardColumn)
        Moved(m1) == Result(withBoardSelected(m1), NoCmd)
        task == getBoardSelectedTask(mm)
    IN  CASE key \in {"h", "left"} ->
                IF mm.boardColumn > 0 THEN Result(moveBoardColumn(mm, -1), NoCmd)
                ELSE Result(mm, NoCmd)
          [] key \in {"l", "right"} ->
                IF mm.boardColumn < totalColumns - 1 THEN Result(moveBoardColumn(mm, 1), NoCmd)
                ELSE Result(mm, NoCmd)
          [] key \in {"k", "up"} ->
                IF mm.boardRow > 0 THEN Moved([mm EXCEPT !.boardRow = @ - 1])
                ELSE Result(mm, NoCmd)
          [] key \in {"j", "down"} ->
                IF mm.boardRow < count - 1 THEN Moved([mm EXCEPT !.boardRow = @ + 1])
                ELSE Result(mm, NoCmd)
          [] key = "g" ->
                IF mm.boardRow # 0 THEN Moved([mm EXCEPT !.boardRow = 0])
                ELSE Result(mm, NoCmd)
          [] key = "G" ->
                IF count > 0 /\ mm.boardRow # count - 1
                THEN Moved([mm EXCEPT !.boardRow = count - 1])
                ELSE Result(mm, NoCmd)
          [] key = "enter" ->
                IF task # EmptyStr
                THEN Result([mm EXCEPT !.selected = task, !.previousMode = ViewBoard,
                                       !.mode = ViewDetail], <<"loadComments">>)
                ELSE Result(mm, NoCmd)
          [] key = "b" -> Result([mm EXCEPT !.mode = ViewList], NoCmd)
          [] key = "?" -> Result([mm EXCEPT !.mode = ViewHelp], NoCmd)
          [] key = "esc" -> Result([mm EXCEPT !.mode = ViewList], NoCmd)
          [] OTHER -> Result(mm, NoCmd)

\* the end of a dialog: back to the list, with the command to the external tool if any
closeDialog(mm, cmds) == Result([mm EXCEPT !.mode = ViewList], cmds)

\* Model.handleTitleBarKeys
handleTitleBarKeys(mm, key) ==
    IF key = "enter"
    THEN IF mm.selected # EmptyStr /\ TrimSpace(mm.modalInput) # EmptyStr
         THEN closeDialog(mm, <<"update">>)
         ELSE closeDialog(mm, NoCmd)
    ELSE Result(mm, NoCmd)

\* the shortcut keys of the options of the three select dialogs
ShortcutsOf(mode) ==
    CASE mode = ViewEditStatus -> {"o", "i", "c"}
      [] mode = ViewEditPriority -> {"0", "1", "2", "3", "4"}
      [] mode = ViewEditType -> {"t", "b", "f", "e", "r"}
      [] OTHER -> {}

\* Model.handleSelectBarKeys with applyModalSelection (which option is chosen is not
\* part of the model)
handleSelectBarKeys(mm, key) ==
    IF key \in ShortcutsOf(mm.mode) /\ mm.selected # EmptyStr
    THEN closeDialog(mm, <<"update">>)
    ELSE IF key = "enter"
    THEN closeDialog(mm, IF mm.selected # EmptyStr THEN <<"update">> ELSE NoCmd)
    ELSE Result(mm, NoCmd)

\* Model.handleTextEditKeys
handleTextEditKeys(mm, key) ==
    IF key = "ctrl+s"
    THEN closeDialog(mm, IF mm.selected # EmptyStr THEN <<"update">> ELSE NoCmd)
    ELSE Result(mm, NoCmd)

\* Model.handleAddCommentKeys
handleAddCommentKeys(mm, key) ==
    IF key = "enter"
    THEN closeDialog(mm, IF TrimSpace(mm.commentInput) # EmptyStr /\ mm.selected # EmptyStr
                         THEN <<"addComment">> ELSE NoCmd)
    ELSE Result(mm, NoCmd)

\* Model.handleAddBlockerKeys and Model.handleRemoveBlockerKeys
handleBlockerKeys(mm, key, cmd) ==
    IF key = "enter"
    THEN closeDialog(mm, IF mm.selected # EmptyStr THEN <<cmd>> ELSE NoCmd)
    ELSE Result(mm, NoCmd)

\* Model.handleKeyPress
handleKeyPress(mm, key) ==
    IF mm.searchMode THEN handleSearchKeys(mm, key)
    ELSE CASE mm.mode = ViewList -> handleListKeys(mm, key)
           [] mm.mode = ViewDetail -> handleDetailKeys(mm, key)
           [] mm.mode = ViewHelp -> handleHelpKeys(mm, key)
           [] mm.mode = ViewConfirm -> handleConfirmKeys(mm, key)
           [] mm.mode = ViewBoard -> handleBoardKeys(mm, key)
           [] mm.mode = ViewEditTitle -> handleTitleBarKeys(mm, key)
           [] mm.mode \in {ViewEditStatus, ViewEditPriority, ViewEditType} ->
                handleSelectBarKeys(mm, key)
           [] mm.mode = ViewEditText -> handleTextEditKeys(mm, key)
           [] mm.mode = ViewAddComment -> handleAddCommentKeys(mm, key)
           [] mm.mode = ViewAddBlocker -> handleBlockerKeys(mm, key, "addBlocker")
           [] mm.mode = ViewRemoveBlocker -> handleBlockerKeys(mm, key, "removeBlocker")
           [] OTHER -> Result(mm, NoCmd)

\* the end of the KeyMsg case: r is what handleKeyPress returned; a key that changed
\* the mode or opened the search returns at once, every other one falls through to
\* the child components
afterKeyPress(mm, r, key) ==
    IF r.m.mode # mm.mode \/ (r.m.searchMode /\ ~mm.searchMode)
    THEN r
    ELSE Result(UpdateChildren(r.m, key), r.cmds)

\* Model.Update, case tea.KeyMsg
UpdateKey(mm, key) ==
    CASE key = "ctrl+c" -> Result(mm, <<"quit">>)
      [] key = "q" /\ mm.mode \in {ViewList, ViewBoard} -> Result(mm, <<"quit">>)
      [] key = "esc" ->
            IF mm.searchMode
            THEN Result(distributeTasks([mm EXCEPT !.searchMode = FALSE,
                                                   !.filterQuery = EmptyStr,
                                                   !.searchInput = EmptyStr]), NoCmd)
            ELSE CASE mm.mode = ViewDetail -> Result(leaveDetail(mm), NoCmd)
                   [] mm.mode = ViewList ->
                        IF mm.filterQuery # EmptyStr
                        THEN Result(distributeTasks([mm EXCEPT !.filterQuery = EmptyStr]), NoCmd)
                        ELSE Result(mm, NoCmd)
                   [] OTHER -> Result([mm EXCEPT !.mode = ViewList], NoCmd)
      [] OTHER -> afterKeyPress(mm, handleKeyPress(mm, key), key)

----------------------------------------------------------------------------
(* Mouse handlers.  A mouse message is [button, x, y, ctrl]; only presses are modelled *)

\* Model.calculatePanelBounds: top and bottom of each visible panel, and the shared right edge
calculatePanelBounds(mm) ==
    LET panelWidth == IF mm.width >= 80 THEN GoDiv(mm.width, 2) ELSE mm.width
        ipShown == isInProgressVisible(mm)
        y1 == IF ipShown THEN mm.inProgressPanel.height ELSE 0
        y2 == y1 + mm.openPanel.height
        y3 == y2 + mm.closedPanel.height
        B(top, bottom) == [top |-> top, bottom |-> bottom, left |-> 0, right |-> panelWidth]
    IN  [f \in (IF ipShown THEN {FocusInProgress} ELSE {}) \cup {FocusOpen, FocusClosed} |->
            CASE f = FocusInProgress -> B(0, y1)
              [] f = FocusOpen -> B(y1, y2)
              [] f = FocusClosed -> B(y2, y3)]

\* bounds that include their bottom row
isPointInBounds_ClosedBottom(x, y, bounds) ==
    x >= bounds.left /\ x < bounds.right /\ y >= bounds.top /\ y <= bounds.bottom

\* Model.isPointInBounds
isPointInBounds(x, y, bounds) ==
    x >= bounds.left /\ x < bounds.right /\ y >= bounds.top /\ y < bounds.bottom

\* the left click of the list view on panel: the panel takes the focus and the row
\* under the pointer, if it is below the title line, the cursor
clickPanel(mm, panel, itemIndex) ==
    IF itemIndex >= 0 THEN selectItemInPanel(focusPanelByType(mm, panel), panel, itemIndex)
    ELSE focusPanelByType(mm, panel)

\* the left click of the list view: hits are the panels whose bounds hold the pointer
clickList(mm, msg, panelBounds, hits) ==
    IF hits = {} THEN mm
    ELSE clickPanel(mm, CHOOSE f \in hits : TRUE,
                    msg.y - panelBounds[CHOOSE f \in hits : TRUE].top - 1)

\* a click on the detail pane of the wide layout opens the detail view
openDetailOnClick(mm, overDetail) ==
    IF overDetail /\ mm.selected # EmptyStr
    THEN [mm EXCEPT !.previousMode = ViewList, !.mode = ViewDetail]
    ELSE mm

\* handleListMouse once a press has closed the search
listMouse(mm, msg, panelBounds, overDetail) ==
    CASE msg.button = "left" ->
            openDetailOnClick(
                clickList(mm, msg, panelBounds,
                          {f \in DOMAIN panelBounds :
                              isPointInBounds(msg.x, msg.y, panelBounds[f])}),
                overDetail)
      [] msg.button = "wheelup" -> IF overDetail THEN mm ELSE scrollFocusedPanel(mm, -1)
      [] msg.button = "wheeldown" -> IF overDetail THEN mm ELSE scrollFocusedPanel(mm, 1)
      [] OTHER -> mm

\* the search mode a press ends
closeSearch(mm) == IF mm.searchMode THEN [mm EXCEPT !.searchMode = FALSE] ELSE mm

\* Model.handleListMouse
handleListMouse(mm, msg) ==
    listMouse(closeSearch(mm), msg, calculatePanelBounds(closeSearch(mm)),
              mm.width >= 80 /\ msg.x >= GoDiv(mm.width, 2))

\* Model.handleDetailMouse
handleDetailMouse(mm, msg) == IF msg.button = "left" THEN leaveDetail(mm) ELSE mm

\* Model.handleHelpMouse
handleHelpMouse(mm, msg) == IF msg.button = "left" THEN [mm EXCEPT !.mode = ViewList] ELSE mm

\* the plain wheel of the board: selects the column under the pointer and moves the row
wheelBoardRow(mm, actualColumn, delta) ==
    LET count == Len(getBoardColumns(mm.tasks, mm.readyIDs)[actualColumn])
        m1 == [mm EXCEPT !.boardColumn = actualColumn]
        m2 == IF delta < 0
              THEN IF m1.boardRow > 0 THEN [m1 EXCEPT !.boardRow = @ - 1] ELSE m1
              ELSE IF m1.boardRow < count - 1 THEN [m1 EXCEPT !.boardRow = @ + 1] ELSE m1
    IN  [m2 EXCEPT !.selected = getBoardSelectedTask(m2)]

\* the left click of the board with a click exactly one threshold later still a double click
clickBoard_AtThreshold(mm, actualColumn, clickedRow, t) ==
    LET columnCount == Len(getBoardColumns(mm.tasks, mm.readyIDs)[actualColumn])
        isDoubleClick ==
            /\ clickedRow >= 0
            /\ clickedRow < columnCount
            /\ actualColumn = mm.lastClickColumn
            /\ clickedRow = mm.lastClickRow
            /\ mm.lastClickTime # ZeroTime
            /\ t - mm.lastClickTime <= doubleClickThreshold
        at == [mm EXCEPT !.boardColumn = actualColumn, !.boardRow = clickedRow]
        sel == getBoardSelectedTask(at)
    IN  IF isDoubleClick
        THEN IF sel # EmptyStr
             THEN Result([at EXCEPT !.selected = sel, !.previousMode = ViewBoard,
                                    !.mode = ViewDetail, !.lastClickTime = ZeroTime],
                         <<"loadComments">>)
             ELSE Result([at EXCEPT !.selected = sel], NoCmd)
        ELSE IF clickedRow >= 0 /\ clickedRow < columnCount
        THEN Result([at EXCEPT !.selected = sel, !.lastClickTime = t,
                               !.lastClickColumn = actualColumn,
                               !.lastClickRow = clickedRow], NoCmd)
        ELSE IF clickedRow >= 0
        THEN LET last == [mm EXCEPT !.boardColumn = actualColumn,
                                    !.boardRow = IF columnCount > 0 THEN columnCount - 1 ELSE 0]
             IN  Result([last EXCEPT !.selected = getBoardSelectedTask(last),
                                     !.lastClickTime = ZeroTime], NoCmd)
        ELSE Result(mm, NoCmd)

\* the left click of the board with a click below the last card taken as a row
clickBoard_PastEnd(mm, actualColumn, clickedRow, t) ==
    IF clickedRow >= 0
    THEN Result([mm EXCEPT !.boardColumn = actualColumn, !.boardRow = clickedRow,
                           !.selected = EmptyStr, !.lastClickTime = t,
                           !.lastClickColumn = actualColumn, !.lastClickRow = clickedRow],
                NoCmd)
    ELSE Result(mm, NoCmd)

\* the left click of the board at (actualColumn, clickedRow), at time t
clickBoard(mm, actualColumn, clickedRow, t) ==
    LET columnCount == Len(getBoardColumns(mm.tasks, mm.readyIDs)[actualColumn])
        isDoubleClick ==
            /\ clickedRow >= 0
            /\ clickedRow < columnCount
            /\ actualColumn = mm.lastClickColumn
            /\ clickedRow = mm.lastClickRow
            /\ mm.lastClickTime # ZeroTime
            /\ t - mm.lastClickTime < doubleClickThreshold
        at == [mm EXCEPT !.boardColumn = actualColumn, !.boardRow = clickedRow]
        sel == getBoardSelectedTask(at)
    IN  IF isDoubleClick
        THEN IF sel # EmptyStr
             THEN Result([at EXCEPT !.selected = sel, !.previousMode = ViewBoard,
                                    !.mode = ViewDetail, !.lastClickTime = ZeroTime],
                         <<"loadComments">>)
             ELSE Result([at EXCEPT !.selected = sel], NoCmd)
        ELSE IF clickedRow >= 0 /\ clickedRow < columnCount
        THEN Result([at EXCEPT !.selected = sel, !.lastClickTime = t,
                               !.lastClickColumn = actualColumn,
                               !.lastClickRow = clickedRow], NoCmd)
        ELSE IF clickedRow >= 0
        THEN LET last == [mm EXCEPT !.boardColumn = actualColumn,
                                    !.boardRow = IF columnCount > 0 THEN columnCount - 1 ELSE 0]
             IN  Result([last EXCEPT !.selected = getBoardSelectedTask(last),
                                     !.lastClickTime = ZeroTime], NoCmd)
        ELSE Result(mm, NoCmd)

\* Model.handleBoardMouse; t is time.Now()
handleBoardMouse(mm, msg, t) ==
    LET vis == visibleCols(mm.width)
        colWidth == GoDiv(mm.width, vis)
        sc0 == GoDiv(msg.x, colWidth)
        screenColIndex == IF sc0 >= vis THEN vis - 1 ELSE sc0
        actualColumn == mm.boardColumnOffset + screenColIndex
        onBoard == actualColumn >= 0 /\ actualColumn < totalColumns
        horizontal(delta) ==
            IF (delta < 0 /\ mm.boardColumn > 0) \/ (delta > 0 /\ mm.boardColumn < totalColumns - 1)
            THEN Result(moveBoardColumn(mm, delta), NoCmd)
            ELSE Result(mm, NoCmd)
    IN  IF colWidth = 0 THEN Result(mm, <<"panic">>)
        ELSE CASE msg.button = "left" ->
                    IF onBoard
                    THEN clickBoard(mm, actualColumn, GoDiv(msg.y - colTop - 1, cardHeight), t)
                    ELSE Result(mm, NoCmd)
               [] msg.button = "wheelup" ->
                    IF msg.ctrl THEN horizontal(-1)
                    ELSE IF onBoard THEN Result(wheelBoardRow(mm, actualColumn, -1), NoCmd)
                    ELSE Result(mm, NoCmd)
               [] msg.button = "wheeldown" ->
                    IF msg.ctrl THEN horizontal(1)
                    ELSE IF onBoard THEN Result(wheelBoardRow(mm, actualColumn, 1), NoCmd)
                    ELSE Result(mm, NoCmd)
               [] msg.button = "wheelleft" -> horizontal(-1)
               [] msg.button = "wheelright" -> horizontal(1)
               [] OTHER -> Result(mm, NoCmd)

\* Model.handleMouseEvent (Update, case tea.MouseMsg)
handleMouseEvent(mm, msg, t) ==
    CASE mm.mode = ViewList -> Result(handleListMouse(mm, msg), NoCmd)
      [] mm.mode = ViewDetail -> Result(handleDetailMouse(mm, msg), NoCmd)
      [] mm.mode = ViewHelp -> Result(handleHelpMouse(mm, msg), NoCmd)
      [] mm.mode = ViewBoard -> handleBoardMouse(mm, msg, t)
      [] OTHER -> Result(mm, NoCmd)

----------------------------------------------------------------------------
(* Update for the other messages *)

\* the guarded start of a snapshot fetch
startLoad(mm) ==
    IF ~mm.loading THEN Result([mm EXCEPT !.loading = TRUE], <<"loadTasks">>)
    ELSE Result(mm, NoCmd)

\* Model.Update, case tea.WindowSizeMsg
UpdateWindowSize(mm, width, height) ==
    Result(UpdateChildren(updateSizes([mm EXCEPT !.width = width, !.height = height]), ""),
           NoCmd)

\* the tasksLoadedMsg case dropping the collapsed flag of identifiers the new snapshot lacks
UpdateTasksLoaded_Prune(mm, msg) ==
    LET m1 == [mm EXCEPT !.loading = FALSE]
        m2 == IF msg.err THEN [m1 EXCEPT !.err = TRUE]
              ELSE distributeTasks([m1 EXCEPT !.err = FALSE, !.tasks = msg.tasks,
                                              !.readyIDs = msg.readyIDs,
                                              !.collapsedNodes = @ \cap IDsOf(msg.tasks)])
    IN  Result(UpdateChildren(m2, ""), NoCmd)

\* the tasksLoadedMsg case replacing the snapshot by the empty one when the fetch failed
UpdateTasksLoaded_DropOnError(mm, msg) ==
    LET m1 == [mm EXCEPT !.loading = FALSE]
        m2 == IF msg.err
              THEN distributeTasks([m1 EXCEPT !.err = TRUE, !.tasks = <<>>, !.readyIDs = {}])
              ELSE distributeTasks([m1 EXCEPT !.err = FALSE, !.tasks = msg.tasks,
                                              !.readyIDs = msg.readyIDs])
    IN  Result(UpdateChildren(m2, ""), NoCmd)

\* Model.Update, case tasksLoadedMsg
UpdateTasksLoaded(mm, msg) ==
    LET m1 == [mm EXCEPT !.loading = FALSE]
        m2 == IF msg.err THEN [m1 EXCEPT !.err = TRUE]
              ELSE distributeTasks([m1 EXCEPT !.err = FALSE, !.tasks = msg.tasks,
                                              !.readyIDs = msg.readyIDs])
    IN  Result(UpdateChildren(m2, ""), NoCmd)

\* the tickMsg case without the new pollTick
UpdateTick_NoReschedule(mm) ==
    LET r == startLoad(mm)
    IN  Result(UpdateChildren(r.m, ""), r.cmds)

\* Model.Update, case tickMsg
UpdateTick(mm) ==
    LET r == startLoad(mm)
    IN  Result(UpdateChildren(r.m, ""), r.cmds \o <<"pollTick">>)

\* Model.Update, case taskDeletedMsg
UpdateTaskDeleted(mm, err) ==
    LET m1 == [mm EXCEPT !.err = IF err THEN TRUE ELSE @, !.mode = ViewList]
        r == startLoad(m1)
    IN  Result(UpdateChildren(r.m, ""), r.cmds)

----------------------------------------------------------------------------
(* The issues the external tool can report *)

idA == <<"a">>
idA1 == <<"a", ".", "1">>
idA2 == <<"a", ".", "2">>
idA11 == <<"a", ".", "1", ".", "1">>
idB == <<"b">>

IDOrder == <<idB, idA1, idA, idA11, idA2>>

\* title, priority and timestamps of each issue; closed is its closed_at once it is
\* closed (a.1 is reported without one)
Attr(id) ==
    CASE id = idA -> [Title |-> <<"F", "i", "x">>, Priority |-> 2, CreatedAt |-> 1,
                      UpdatedAt |-> 3, closed |-> 5]
      [] id = idA1 -> [Title |-> <<"A", "b">>, Priority |-> 1, CreatedAt |-> 4,
                       UpdatedAt |-> 1, closed |-> NoTime]
      [] id = idA2 -> [Title |-> <<"x">>, Priority |-> 1, CreatedAt |-> 2,
                       UpdatedAt |-> 4, closed |-> 7]
      [] id = idA11 -> [Title |-> <<"b", "a">>, Priority |-> 0, CreatedAt |-> 3,
                        UpdatedAt |-> 2, closed |-> 6]
      [] id = idB -> [Title |-> <<"B", "x">>, Priority |-> 2, CreatedAt |-> 5,
                      UpdatedAt |-> 5, closed |-> 9]

MkTask(id, status, blockedBy) ==
    Task(id, Attr(id).Title, status, Attr(id).Priority, Attr(id).CreatedAt,
         Attr(id).UpdatedAt, IF status = "closed" THEN Attr(id).closed ELSE NoTime,
         blockedBy)

Statuses == {"open", "in_progress", "closed"}

Absent == [status |-> "absent", blocked |-> FALSE]

\* the snapshot that reports, in the order of IDOrder, every issue f does not map to Absent
RECURSIVE SnapshotTasks(_, _)
SnapshotTasks(f, i) ==
    IF i > Len(IDOrder) THEN <<>>
    ELSE LET id == IDOrder[i]
             rest == SnapshotTasks(f, i + 1)
         IN  IF id \notin DOMAIN f \/ f[id] = Absent THEN rest
             ELSE <<MkTask(id, f[id].status,
                           IF f[id].blocked THEN <<idB>> ELSE <<>>)>> \o rest

Snapshot(f, readyIDs) == [tasks |-> SnapshotTasks(f, 1), readyIDs |-> readyIDs]

St(status) == [status |-> status, blocked |-> FALSE]

Blocked(status) == [status |-> status, blocked |-> TRUE]

\* a handful of snapshots for the interaction specifications
SnapMixed ==
    Snapshot((idA :> St("open")) @@ (idA1 :> St("open")) @@ (idA2 :> St("closed"))
               @@ (idB :> St("in_progress")), {idA})

SnapTree ==
    Snapshot((idA :> St("open")) @@ (idA1 :> St("open")) @@ (idA11 :> St("open"))
               @@ (idA2 :> Blocked("open")) @@ (idB :> St("open")), {idA, idB})

SnapClosed ==
    Snapshot((idA :> St("closed")) @@ (idA1 :> St("closed")) @@ (idA2 :> St("closed"))
               @@ (idB :> St("in_progress")), {})

SnapSingle == Snapshot((idA1 :> St("open")), {idA1})

SnapEmpty == Snapshot(<<>>, {})

\* four issues without parents, of priorities 2, 0, 2, 1 in the order of the snapshot,
\* each updated later than the one before it
idC == <<"c">>
idD == <<"d">>
idE == <<"e">>
idF == <<"f">>

PrioritySnapshot(status) ==
    [tasks |-> << Task(idC, <<"c">>, status, 2, 1, 1, NoTime, <<>>),
                  Task(idD, <<"d">>, status, 0, 2, 2, NoTime, <<>>),
                  Task(idE, <<"e">>, status, 2, 3, 3, NoTime, <<>>),
                  Task(idF, <<"f">>, status, 1, 4, 4, NoTime, <<>>) >>,
     readyIDs |-> {}]

SmallSnapshots == {SnapMixed, SnapTree, SnapClosed, SnapSingle, SnapEmpty}

\* every snapshot over three issues: status, blockers and ready membership vary freely
ColumnIDs == {idA, idA1, idB}

ColumnSnapshots ==
    { Snapshot(f, r) :
        f \in [ColumnIDs -> {Absent} \cup {St(s) : s \in Statuses}
                                     \cup {Blocked(s) : s \in Statuses}],
        r \in SUBSET {idA, idB} }

----------------------------------------------------------------------------
(* The event loop: one action per message delivered to Update *)

Running == ~quitting /\ ~panicked

Occurs(cmds, c) == Cardinality({i \in 1..Len(cmds) : cmds[i] = c})

\* the runtime takes the model and the commands Update returned; loadDone, tickDone and
\* deleteDone count the command whose message was just delivered
Apply(r, loadDone, tickDone, deleteDone) ==
    /\ m' = r.m
    /\ inflight' = inflight - loadDone + Occurs(r.cmds, "loadTasks")
    /\ inflight' <= MaxInflight
    /\ ticks' = ticks - tickDone + Occurs(r.cmds, "pollTick")
    /\ pending' = pending - deleteDone + Occurs(r.cmds, "delete")
    /\ pending' <= MaxPending
    /\ quitting' = (quitting \/ Occurs(r.cmds, "quit") > 0)
    /\ panicked' = (panicked \/ Occurs(r.cmds, "panic") > 0)
    /\ now' = now
    /\ UNCHANGED <<env, cfg>>

\* tea.NewProgram(app.New()) followed by Model.Init: Init has a value receiver, so its
\* assignment to loading is lost while its two commands are started
Init ==
    /\ m = New
    /\ inflight = 1
    /\ ticks = 1
    /\ pending = 0
    /\ now = 0
    /\ quitting = FALSE
    /\ panicked = FALSE
    /\ env = PlainEnv
    /\ cfg = Load(PlainEnv)

\* a loadTasks command finishes: its tasksLoadedMsg is processed
TasksLoaded(snapshots, errs) ==
    /\ Running
    /\ inflight > 0
    /\ \E s \in snapshots, err \in errs :
          Apply(UpdateTasksLoaded(m, [tasks |-> s.tasks, readyIDs |-> s.readyIDs,
                                      err |-> err]), 1, 0, 0)

\* the poll timer fires
Tick ==
    /\ Running
    /\ ticks > 0
    /\ Apply(UpdateTick(m), 0, 1, 0)

\* a delete command finishes
TaskDeleted ==
    /\ Running
    /\ pending > 0
    /\ \E err \in BOOLEAN : Apply(UpdateTaskDeleted(m, err), 0, 0, 1)

\* the keys whose handlers are modelled, by view
OfferedKeys(mm) ==
    IF mm.searchMode
    THEN {"enter", "backspace", "esc", "ctrl+c"}
            \cup (IF Len(mm.searchInput) < MaxQueryLen THEN TypedChars ELSE {})
    ELSE CASE mm.mode = ViewList ->
                NavKeys \cup {"enter", "a", "c", "x", "h", "left", "l", "right", "R", "?",
                              "e", "s", "p", "t", "d", "n", "C", "B", "D", "/", "y", "S", "b",
                              "o", "O", "r", "A", " ", "q", "esc", "ctrl+c"} \cup CustomKeys
           [] mm.mode = ViewBoard ->
                {"h", "left", "l", "right", "k", "up", "j", "down", "g", "G", "enter",
                 "b", "?", "q", "esc", "ctrl+c"}
           [] mm.mode = ViewDetail -> {"enter", "?", "esc", "ctrl+c"}
           [] mm.mode = ViewHelp -> {"?", "esc", "ctrl+c"}
           [] mm.mode = ViewConfirm -> {"y", "Y", "n", "N", "esc", "ctrl+c"}
           [] mm.mode = ViewEditTitle ->
                {"enter", "backspace", "esc", "ctrl+c"}
                    \cup (IF Len(mm.modalInput) < MaxQueryLen THEN {"x", " "} ELSE {})
           [] mm.mode = ViewAddComment ->
                {"enter", "backspace", "esc", "ctrl+c"}
                    \cup (IF Len(mm.commentInput) < MaxQueryLen THEN {"x", " "} ELSE {})
           [] mm.mode \in {ViewEditStatus, ViewEditPriority, ViewEditType} ->
                {"enter", "j", "k", "esc", "ctrl+c"} \cup ShortcutsOf(mm.mode)
           [] mm.mode = ViewEditText -> {"ctrl+s", "x", "esc", "ctrl+c"}
           [] mm.mode \in {ViewAddBlocker, ViewRemoveBlocker} ->
                {"enter", "j", "k", "esc", "ctrl+c"}
           [] OTHER -> {"esc", "ctrl+c"}

\* a key press, drawn from keys
KeyPress(keys) ==
    /\ Running
    /\ \E key \in keys \cap OfferedKeys(m) : Apply(UpdateKey(m, key), 0, 0, 0)

MouseButtons == {"left", "wheelup", "wheeldown", "wheelleft", "wheelright"}

\* a mouse press, drawn from the given buttons, coordinates and states of the ctrl key
MousePress(buttons, xs, ys, ctrls) ==
    /\ Running
    /\ m.mode \in {ViewList, ViewDetail, ViewHelp, ViewBoard}
    /\ \E button \in buttons, x \in xs, y \in ys, ctrl \in ctrls :
          Apply(handleMouseEvent(m, [button |-> button, x |-> x, y |-> y, ctrl |-> ctrl], now),
                0, 0, 0)

\* the terminal is resized
WindowSize(sizes) ==
    /\ Running
    /\ \E size \in sizes : Apply(UpdateWindowSize(m, size[1], size[2]), 0, 0, 0)

\* time passes, by half a double-click threshold or by 250 ms at a time, so that two
\* clicks can be 0, 150, 250, 300, 400 or 450 ms apart
ClockStep == doubleClickThreshold \div 2

ClockSteps == {ClockStep, 250}

Advance ==
    /\ Running
    /\ \E d \in ClockSteps : now + d <= MaxClock /\ now' = now + d
    /\ UNCHANGED <<m, inflight, ticks, pending, quitting, panicked, env, cfg>>

----------------------------------------------------------------------------
(* Specifications *)

\* snapshot fetching: timer, refresh key, delete confirmation and fetch completion
RefreshKey == KeyPress({"R"})

DeleteKeys == KeyPress({"x", "y", "n"})

CursorKeys == KeyPress({"j", "k"})

TasksLoadedSmall == TasksLoaded(SmallSnapshots, BOOLEAN)

NextFetch == Tick \/ TasksLoadedSmall \/ RefreshKey \/ DeleteKeys \/ TaskDeleted \/ CursorKeys

SpecFetch == Init /\ [][NextFetch]_vars

\* a step that processes a tasksLoadedMsg: no other step lowers the count
FetchApplied == inflight' < inflight

\* weak fairness of TasksLoadedSmall, written out: the action is enabled exactly when
\* the program runs with a fetch outstanding, and its steps are the steps FetchApplied
FetchesReturn == []<>~(Running /\ inflight > 0) \/ []<><<FetchApplied>>_vars

\* the same with the scheduling the runtime gives: an armed timer fires, and a fetch
\* that was started returns; nothing is assumed of the keys
SpecRefresh == SpecFetch /\ WF_vars(Tick) /\ FetchesReturn

\* the board columns: the first fetch delivers any snapshot of ColumnSnapshots, and the
\* preset, sort and search keys of the list view change the filter and the sort mode
TasksLoadedColumns == TasksLoaded(ColumnSnapshots, BOOLEAN)

PresetKeys == KeyPress({"O", "r"})

SortKey == KeyPress({"S"})

SearchKeys == KeyPress({"/", "esc"})

QueryKeys == m.searchMode /\ KeyPress({"a"})

NextColumns == TasksLoadedColumns \/ PresetKeys \/ SortKey \/ SearchKeys \/ QueryKeys

SpecColumns == Init /\ [][NextColumns]_vars

\* the board view: refresh, the board key, the motion keys, the mouse, and resizes
BoardSizes == {<<40, 20>>, <<100, 20>>, <<150, 20>>}

BoardSnapshots == {SnapTree, SnapSingle, SnapEmpty}

TasksLoadedBoard == TasksLoaded(BoardSnapshots, {FALSE})

BoardKey == KeyPress({"b"})

BoardMotionKeys ==
    m.mode = ViewBoard /\ KeyPress({"h", "l", "j", "k", "g", "G", "left", "right", "up", "down"})

BoardWheel ==
    m.mode = ViewBoard /\ MousePress(MouseButtons \ {"left"}, {0, 35, 70, 100, 130}, {0}, BOOLEAN)

BoardClick == m.mode = ViewBoard /\ MousePress({"left"}, {0, 70}, {0, 10}, {FALSE})

BoardResize == WindowSize(BoardSizes)

NextBoard ==
    Tick \/ TasksLoadedBoard \/ BoardKey \/ BoardMotionKeys \/ BoardWheel \/ BoardClick
        \/ BoardResize

SpecBoard == Init /\ [][NextBoard]_vars

\* clicks on the board: the board key, column motion, left clicks on and below the
\* cards, the click that leaves the detail view, resizes, and the passing of time
ClickSnapshots == {SnapTree, SnapSingle}

TasksLoadedClick == TasksLoaded(ClickSnapshots, {FALSE})

ColumnKeys == m.mode = ViewBoard /\ KeyPress({"h", "l"})

CardClicks == m.mode = ViewBoard /\ MousePress({"left"}, {0, 35, 70}, {2, 6, 18}, {FALSE})

DetailClick == m.mode = ViewDetail /\ MousePress({"left"}, {0}, {0}, {FALSE})

NextClick ==
    TasksLoadedClick \/ BoardKey \/ ColumnKeys \/ CardClicks \/ DetailClick \/ BoardResize
        \/ Advance

SpecClick == Init /\ [][NextClick]_vars

\* opening and closing the detail view: the steps of the click specification and the
\* keys that open the detail view, close it, and lead from it to the help view and back
DetailKeys == KeyPress({"enter", "esc", "?"})

NextDetail ==
    TasksLoadedClick \/ BoardKey \/ ColumnKeys \/ CardClicks \/ DetailClick \/ BoardResize
        \/ Advance \/ DetailKeys

SpecDetail == Init /\ [][NextDetail]_vars

\* the list view: refresh, navigation, focus, the mouse, resizes, and the filter, sort
\* and expand keys
ListSizes == {<<100, 20>>}

ListNavKeys == m.mode = ViewList /\ KeyPress({"k", "j", "g", "G", "ctrl+u", "pgdown"})

FocusKeys == m.mode = ViewList /\ KeyPress({"h", "l"})

ListMouse ==
    m.mode = ViewList
        /\ MousePress({"left", "wheelup", "wheeldown"}, {5, 60}, {1, 3, 8, 14}, {FALSE})

ListResize == WindowSize(ListSizes)

ExpandKey == m.mode = ViewList /\ KeyPress({" "})

NextList ==
    Tick \/ TasksLoadedSmall \/ ListNavKeys \/ FocusKeys \/ ListMouse \/ ListResize
        \/ PresetKeys \/ SortKey \/ SearchKeys \/ QueryKeys

SpecList == Init /\ [][NextList]_vars

SearchClick == m.searchMode /\ MousePress({"left"}, {5}, {1}, {FALSE})

FilterSnapshots == {SnapMixed, SnapTree, SnapSingle}

TasksLoadedFilter == TasksLoaded(FilterSnapshots, BOOLEAN)

NextFilter ==
    Tick \/ TasksLoadedFilter \/ CursorKeys \/ FocusKeys \/ PresetKeys \/ SortKey
        \/ SearchKeys \/ QueryKeys \/ ExpandKey \/ SearchClick

SpecFilter == Init /\ [][NextFilter]_vars

\* the focus: snapshots with any of the three panels empty, reloads, the cycle keys,
\* clicks and wheel turns on the panels, the click that leaves the detail view, resizes
SnapOnlyClosed == Snapshot((idA :> St("closed")), {})

FocusSnapshots == {SnapMixed, SnapTree, SnapClosed, SnapOnlyClosed, SnapEmpty}

TasksLoadedFocus == TasksLoaded(FocusSnapshots, BOOLEAN)

NextFocus ==
    TasksLoadedFocus \/ RefreshKey \/ FocusKeys \/ CursorKeys \/ ListMouse \/ DetailClick
        \/ ListResize

SpecFocus == Init /\ [][NextFocus]_vars

\* the trees of the panels: the first fetch delivers any snapshot of TreeSnapshots, then
\* the sort key, the focus and cursor keys and the expand key act on it
TreeIDs == {idA, idA1, idA11, idA2, idB}

TreeSnapshots ==
    { Snapshot(f, {}) : f \in [TreeIDs -> {Absent, St("open"), St("closed")}] }
        \cup {PrioritySnapshot("open"), PrioritySnapshot("in_progress"), SnapMixed}

TasksLoadedTree == TasksLoaded(TreeSnapshots, {FALSE})

NextTree == TasksLoadedTree \/ SortKey \/ FocusKeys \/ CursorKeys \/ ExpandKey

SpecTree == Init /\ [][NextTree]_vars

\* the buckets: the first fetch delivers any snapshot over a, a.1 and a.2, then the four
\* preset keys and the search act on it
BucketIDs == {idA, idA1, idA2}

BucketSnapshots ==
    { Snapshot(f, {}) :
        f \in [BucketIDs -> {Absent} \cup {St(s) : s \in Statuses}
                                     \cup {Blocked(s) : s \in Statuses}] }

TasksLoadedBucket == TasksLoaded(BucketSnapshots, {FALSE})

AllPresetKeys == KeyPress({"o", "O", "r", "A"})

SearchEditKeys == KeyPress({"/", "esc", "enter", "backspace"})

QueryChars == m.searchMode /\ KeyPress({"A", "x", "1"})

NextBucket == TasksLoadedBucket \/ AllPresetKeys \/ SearchEditKeys \/ QueryChars

SpecBucket == Init /\ [][NextBucket]_vars

\* failing fetches: polls and refreshes that deliver a snapshot or fail, in the list
\* and in the board view, with cursor and focus moves in between
NextFail ==
    Tick \/ TasksLoadedSmall \/ RefreshKey \/ CursorKeys \/ FocusKeys \/ BoardKey
        \/ BoardMotionKeys \/ BoardResize

SpecFail == Init /\ [][NextFail]_vars

\* the dialogs: the keys that open them on the selected issue, the keys handled inside
\* them, the detail view, and polls that refresh the snapshot while a dialog is open
DialogSnapshots == {SnapMixed, SnapTree, SnapSingle, SnapEmpty}

TasksLoadedDialog == TasksLoaded(DialogSnapshots, {FALSE})

DialogModes ==
    {ViewEditTitle, ViewEditStatus, ViewEditPriority, ViewEditType, ViewEditText,
     ViewAddComment, ViewAddBlocker, ViewRemoveBlocker}

OpenDialogKeys ==
    m.mode = ViewList /\ KeyPress({"e", "s", "p", "t", "d", "C", "B", "D", "enter"})

DialogKeys ==
    m.mode \in DialogModes \cup {ViewDetail}
        /\ KeyPress({"enter", "esc", "ctrl+s", "backspace", "x", "i", "2", "b", "j"})

NextDialog == Tick \/ TasksLoadedDialog \/ CursorKeys \/ OpenDialogKeys \/ DialogKeys

SpecDialog == Init /\ [][NextDialog]_vars

\* degenerate terminals: resizes to sizes with a zero or tiny width or height, and the
\* board and list events whose handlers compute positions from the size
GeometrySizes == {<<0, 0>>, <<0, 20>>, <<100, 0>>, <<29, 3>>, <<100, 20>>}

GeometryResize == WindowSize(GeometrySizes)

NextGeometry ==
    TasksLoadedBoard \/ GeometryResize \/ BoardKey \/ BoardClick \/ BoardWheel \/ ListMouse
        \/ FocusKeys

SpecGeometry == Init /\ [][NextGeometry]_vars

\* the start of the program without user input: the first fetch and the polled ones
\* deliver any snapshot of unblocked issues over a, a.1 and a.2 or fail, and the terminal reports its size
StartSnapshots ==
    { Snapshot(f, {}) : f \in [BucketIDs -> {Absent} \cup {St(s) : s \in Statuses}] }

TasksLoadedStart == TasksLoaded(StartSnapshots, BOOLEAN)

StartResize == WindowSize(BoardSizes)

NextStart == TasksLoadedStart \/ Tick \/ StartResize

SpecStart == Init /\ [][NextStart]_vars

\* leaving the program: the quit keys in every view, the keys that change the view,
\* fetches that succeed or fail, resizes to a width of zero and back, and the mouse
QuitSnapshots == {SnapSingle, SnapEmpty}

TasksLoadedQuit == TasksLoaded(QuitSnapshots, BOOLEAN)

QuitKeys == KeyPress({"q", "ctrl+c"})

ViewKeys == KeyPress({"b", "?", "enter", "/", "e", "x", "esc"})

QuitSizes == {<<0, 20>>, <<100, 20>>}

QuitResize == WindowSize(QuitSizes)

AnyMouse == MousePress(MouseButtons, {0, 60}, {10}, {FALSE})

NextQuit == TasksLoadedQuit \/ QuitKeys \/ ViewKeys \/ QuitResize \/ AnyMouse

SpecQuit == Init /\ [][NextQuit]_vars

\* identifiers: every fetch delivers one open issue whose identifier is any string of
\* up to MaxIdLen characters over a letter, a digit and the dot
MaxIdLen == 5

IdChars == {"a", "1", "."}

IdStrings == UNION { [1..n -> IdChars] : n \in 1..MaxIdLen }

IdSnapshots ==
    { [tasks |-> <<Task(id, id, "open", 2, 1, 1, NoTime, <<>>)>>, readyIDs |-> {}] :
        id \in IdStrings }

TasksLoadedIds == TasksLoaded(IdSnapshots, {FALSE})

NextIds == TasksLoadedIds \/ Tick

SpecIds == Init /\ [][NextIds]_vars

\* the configuration: the process starts in any environment of ConfigEnvs, the two
\* variables are set and unset, and config.Load is called
customPath == <<"tmp", "custom", "config.yml">>

xdgDir == <<"tmp", "xdg">>

ContextsGiven ==
    {[given |-> FALSE, value |-> ""], [given |-> TRUE, value |-> ""],
     [given |-> TRUE, value |-> "list"], [given |-> TRUE, value |-> "detail"],
     [given |-> TRUE, value |-> "global"]}

MaxCommands == 2

CommandLists ==
    UNION { [1..n -> [key : {"D"}, context : ContextsGiven]] : n \in 0..MaxCommands }

FileContents ==
    {[kind |-> "invalid", commands |-> <<>>], [kind |-> "unreadable", commands |-> <<>>]}
        \cup {[kind |-> "yaml", commands |-> c] : c \in CommandLists}

ConfigPaths ==
    {customPath, Join(xdgDir, <<"lazybeads", "config.yml">>),
     Join(homeDir, <<".config", "lazybeads", "config.yml">>)}

\* the file systems: one configuration file at one of the paths, or none
FileSystems == {<<>>} \cup {p :> c : p \in ConfigPaths, c \in FileContents}

EnvValues(paths) == {Unset, SetTo(<<>>)} \cup {SetTo(p) : p \in paths}

ConfigEnvs ==
    [LAZYBEADS_CONFIG : EnvValues({customPath}), XDG_CONFIG_HOME : EnvValues({xdgDir}),
     HOME : {Unset, SetTo(homeDir)}, files : FileSystems]

InitConfig ==
    /\ m = New
    /\ inflight = 1
    /\ ticks = 1
    /\ pending = 0
    /\ now = 0
    /\ quitting = FALSE
    /\ panicked = FALSE
    /\ env \in ConfigEnvs
    /\ cfg = NotLoaded

\* os.Setenv and os.Unsetenv on LAZYBEADS_CONFIG
SetenvConfig ==
    /\ \E v \in EnvValues({customPath}) : env' = [env EXCEPT !.LAZYBEADS_CONFIG = v]
    /\ UNCHANGED <<m, inflight, ticks, pending, now, quitting, panicked, cfg>>

\* os.Setenv and os.Unsetenv on XDG_CONFIG_HOME
SetenvXdg ==
    /\ \E v \in EnvValues({xdgDir}) : env' = [env EXCEPT !.XDG_CONFIG_HOME = v]
    /\ UNCHANGED <<m, inflight, ticks, pending, now, quitting, panicked, cfg>>

\* a call of config.Load
LoadConfig ==
    /\ cfg' = Load(env)
    /\ UNCHANGED <<m, inflight, ticks, pending, now, quitting, panicked, env>>

NextConfig == SetenvConfig \/ SetenvXdg \/ LoadConfig

SpecConfig == InitConfig /\ [][NextConfig]_vars

----------------------------------------------------------------------------
(* Snapshot fetching *)

\* C1: at most one snapshot fetch is outstanding at any time: no loadTasks command is
\* started while an earlier one has not yet delivered its tasksLoadedMsg
C1_SingleFetch == inflight <= 1

\* two fetches are outstanding while the loading flag is clear
C1_TwoFetches == inflight = 2 /\ ~m.loading

----------------------------------------------------------------------------
(* Board columns *)

boardColumns == getBoardColumns(m.tasks, m.readyIDs)

RECURSIVE SumLen(_, _)
SumLen(columns, c) ==
    IF c >= totalColumns THEN 0 ELSE Len(columns[c]) + SumLen(columns, c + 1)

\* C2: whatever the text filter, preset filter or sort mode, the five board columns
\* partition the snapshot: their lengths sum to the number of issues of the snapshot
\* and no issue identifier appears in two columns
C2_ColumnsPartition ==
    /\ SumLen(boardColumns, 0) = Len(m.tasks)
    /\ \A c, d \in 0..(totalColumns - 1) :
          c # d => IDsOf(boardColumns[c]) \cap IDsOf(boardColumns[d]) = {}
    /\ \A c \in 0..(totalColumns - 1) : IDsOf(boardColumns[c]) \subseteq IDsOf(m.tasks)

\* three issues in three different columns while a preset, a query and a sort are active
C2_Witness ==
    /\ Len(m.tasks) = 3
    /\ Cardinality({c \in 0..(totalColumns - 1) : Len(boardColumns[c]) = 1}) = 3
    /\ m.filterMode = FilterClosed
    /\ m.filterQuery # EmptyStr
    /\ m.sortMode = SortPriority

\* the column the rule of C3 gives a task
RuleColumn(t, readyIDs) ==
    IF t.Status = "closed" THEN 4
    ELSE IF t.Status = "in_progress" THEN 3
    ELSE IF Len(t.BlockedBy) >= 1 THEN 0
    ELSE IF t.ID \in readyIDs THEN 2
    ELSE 1

\* C3: every issue of the snapshot is in the column the rule gives: closed -> 4,
\* in_progress -> 3, open with a blocker -> 0, open unblocked and ready -> 2, open
\* unblocked and not ready -> 1
C3_ColumnRule ==
    \A i \in 1..Len(m.tasks) :
        m.tasks[i].ID \in IDsOf(boardColumns[RuleColumn(m.tasks[i], m.readyIDs)])

\* an open issue that is blocked and in the ready-set, a closed issue in the ready-set
\* and an in-progress issue with a blocker are all on the board
C3_Witness ==
    /\ \E i \in 1..Len(m.tasks) :
          /\ m.tasks[i].Status = "open" /\ IsBlocked(m.tasks[i])
          /\ m.tasks[i].ID \in m.readyIDs
          /\ m.tasks[i].ID \in IDsOf(boardColumns[0])
    /\ \E i \in 1..Len(m.tasks) :
          /\ m.tasks[i].Status = "closed" /\ m.tasks[i].ID \in m.readyIDs
          /\ m.tasks[i].ID \in IDsOf(boardColumns[4])
    /\ \E i \in 1..Len(m.tasks) :
          /\ m.tasks[i].Status = "in_progress" /\ IsBlocked(m.tasks[i])
          /\ m.tasks[i].ID \in IDsOf(boardColumns[3])

----------------------------------------------------------------------------
(* Panel cursors *)

Panels == {FocusInProgress, FocusOpen, FocusClosed}

CursorInRange(p) ==
    IF Len(p.items) = 0 THEN p.cursor = 0 ELSE p.cursor >= 0 /\ p.cursor < Len(p.items)

\* C4: after every operation that changes a panel's sequence or cursor, the cursor of
\* each panel is at least 0 and less than the length of a non-empty panel, and is 0 in
\* an empty panel
C4_CursorInRange == \A f \in Panels : CursorInRange(PanelOf(m, f))

\* the Ready preset has taken the blocked issue under the cursor out of the Open panel
\* and the cursor is on the new last item
C4_Witness ==
    /\ m.filterMode = FilterReady
    /\ Len(m.openPanel.items) = 4
    /\ m.openPanel.cursor = 3
    /\ m.inProgressPanel.items = <<>>
    /\ m.inProgressPanel.cursor = 0

----------------------------------------------------------------------------
(* Board cursor *)

\* C5: after every board key or mouse operation and after every snapshot refresh the
\* board column index is in [0,5) and the row index is in [0, len(current column)),
\* or is 0 when the current column is empty
C5_BoardCursorInRange ==
    m.mode = ViewBoard =>
        /\ m.boardColumn >= 0
        /\ m.boardColumn < totalColumns
        /\ LET count == Len(boardColumns[m.boardColumn])
           IN  IF count = 0 THEN m.boardRow = 0
               ELSE m.boardRow >= 0 /\ m.boardRow < count

\* C6: after every board operation that changes the column index and after every
\* resize, offset <= column < offset + visibleCount and 0 <= offset <= 5 - visibleCount
C6_ColumnVisible ==
    m.mode = ViewBoard =>
        LET visibleCount == visibleCols(m.width)
        IN  /\ m.boardColumnOffset <= m.boardColumn
            /\ m.boardColumn < m.boardColumnOffset + visibleCount
            /\ m.boardColumnOffset >= 0
            /\ m.boardColumnOffset <= totalColumns - visibleCount

----------------------------------------------------------------------------
(* Recomputation of the panels *)

Recomputed(status, kind) == flattenTree(Bucket(m, status), kind, m.collapsedNodes)

\* C7: after every processed event the sequence of each panel equals the one
\* recomputed from the current snapshot, text query, preset, sort mode and collapse-set
C7_PanelsCurrent ==
    /\ m.inProgressPanel.items = Recomputed("in_progress", m.sortMode)
    /\ m.openPanel.items = Recomputed("open", m.sortMode)
    /\ m.closedPanel.items = Recomputed("closed", SortClosedAt)

\* a query is being typed under the Closed preset and a non-default sort, with a
\* collapsed node, and the Closed panel shows the one closed issue that matches
C7_Witness ==
    /\ m.searchMode
    /\ m.filterQuery = <<"a">>
    /\ m.filterMode = FilterClosed
    /\ m.sortMode = SortCreatedAsc
    /\ m.collapsedNodes # {}
    /\ Len(m.tasks) = 4
    /\ Len(m.closedPanel.items) = 1

\* q is panel p after a recomputation that changed its sequence: the cursor follows the
\* identifier that was selected, and without it is at index 0 or at the nearest index
Reseated(p, q) ==
    q.items # p.items =>
        IF SelectedTask(p) # EmptyStr /\ IndexOfID(q.items, SelectedTask(p)) >= 0
        THEN SelectedTask(q) = SelectedTask(p)
        ELSE \/ q.cursor = 0
             \/ (Len(q.items) > 0 /\ q.cursor = Min(p.cursor, Len(q.items) - 1))

\* C8: after any recomputation of a panel's sequence the cursor is on the previously
\* selected identifier if it is still in the sequence, and otherwise at index 0 or the
\* nearest valid index
C8_CursorFollowsID == [][\A f \in Panels : Reseated(PanelOf(m, f), PanelOf(m', f))]_vars

\* the selected issue moved to another index: b is under the cursor at the last index of
\* an Open panel sorted by creation time, where the default sort has it first
C8_Witness ==
    /\ m.sortMode = SortCreatedAsc
    /\ Len(m.openPanel.items) = 5
    /\ SelectedTask(m.openPanel) = idB
    /\ m.openPanel.cursor = 4

\* C9: the collapse-set is changed only by an explicit toggle (the space key of the
\* list view): refresh, filter, sort and focus changes leave it as it is
C9_CollapseOnlyByToggle ==
    [][m'.collapsedNodes # m.collapsedNodes
          => m.mode = ViewList /\ ~m.searchMode /\ m' = UpdateKey(m, " ").m]_vars

\* a collapsed identifier is absent from the current snapshot and still collapsed, under
\* a preset and a query
C9_Witness ==
    /\ idA \in m.collapsedNodes
    /\ idA \notin IDsOf(m.tasks)
    /\ m.tasks # <<>>
    /\ m.filterMode # FilterAll
    /\ m.focusedPanel = FocusClosed

----------------------------------------------------------------------------
(* Shape of a flattened sequence *)

\* d is a descendant of a through parents that are all in ids
RECURSIVE IsDescendant(_, _, _)
IsDescendant(d, a, ids) ==
    LET parent == ParentID(d)
    IN  parent # EmptyStr /\ parent \in ids /\ (parent = a \/ IsDescendant(parent, a, ids))

\* items is in pre-order over bucket: the descendants of every node that are shown
\* follow it without a gap, an expanded node is followed by a child, a node that is not
\* expanded by no descendant, and nothing below a collapsed identifier is shown
PreOrder(items, bucket, collapsedNodes) ==
    LET ids == IDsOf(bucket)
        n == Len(items)
        Shown(a) == {j \in 1..n : IsDescendant(items[j].task.ID, a, ids)}
    IN  /\ \A i \in 1..n :
              LET below == Shown(items[i].task.ID)
              IN  /\ below = (i + 1)..(i + Cardinality(below))
                  /\ items[i].expanded =>
                        /\ below # {}
                        /\ ParentID(items[i + 1].task.ID) = items[i].task.ID
                        /\ \A k \in 1..Len(bucket) :
                              ParentID(bucket[k].ID) = items[i].task.ID
                                  => \E j \in below : items[j].task.ID = bucket[k].ID
                  /\ ~items[i].expanded => below = {}
        /\ \A a \in ids \cap collapsedNodes : Shown(a) = {}

\* C10: in every flattened sequence an expanded node is immediately followed by its
\* in-bucket descendants in depth-first pre-order, before its next sibling, and no
\* in-bucket descendant of a collapsed node appears
C10_PreOrder ==
    /\ PreOrder(m.inProgressPanel.items, Bucket(m, "in_progress"), m.collapsedNodes)
    /\ PreOrder(m.openPanel.items, Bucket(m, "open"), m.collapsedNodes)
    /\ PreOrder(m.closedPanel.items, Bucket(m, "closed"), m.collapsedNodes)

\* the Open panel shows a expanded, its child a.1 collapsed, and a.2 after it
C10_Witness ==
    /\ Len(m.openPanel.items) = 4
    /\ \E i \in 1..2 :
          /\ m.openPanel.items[i].task.ID = idA
          /\ m.openPanel.items[i].expanded
          /\ m.openPanel.items[i + 1].task.ID = idA1
          /\ m.openPanel.items[i + 1].hasChildren
          /\ ~m.openPanel.items[i + 1].expanded
          /\ m.openPanel.items[i + 2].task.ID = idA2
    /\ m.collapsedNodes = {idA1}

----------------------------------------------------------------------------
(* Collapsing and expanding *)

ItemIDs(items) == [i \in 1..Len(items) |-> items[i].task.ID]

\* q is sequence p after node n was collapsed: the entries of p below n are gone, the
\* entry of n has lost its expanded flag, and every other entry is as it was, in order
Collapsed(p, q, n, ids) ==
    LET Stays(item) == ~IsDescendant(item.task.ID, n, ids)
        kept == SelectSeq(p, Stays)
    IN  /\ Len(q) = Len(kept)
        /\ \A i \in 1..Len(kept) :
              q[i] = IF kept[i].task.ID = n THEN [kept[i] EXCEPT !.expanded = FALSE]
                     ELSE kept[i]

PanelStatus(f) ==
    CASE f = FocusInProgress -> "in_progress"
      [] f = FocusOpen -> "open"
      [] f = FocusClosed -> "closed"

\* C11: collapsing a node that has children removes from the flattened sequence exactly
\* the node's transitive descendants and leaves the other entries and their order as
\* they were, and expanding it again yields exactly the original sequence
C11_CollapseRoundTrip ==
    [][\A n \in TreeIDs :
          (n \notin m.collapsedNodes /\ m'.collapsedNodes = m.collapsedNodes \cup {n}) =>
              \A f \in Panels :
                  /\ Collapsed(PanelOf(m, f).items, PanelOf(m', f).items, n,
                               IDsOf(Bucket(m, PanelStatus(f))))
                  /\ PanelOf(UpdateKey(m', " ").m, f).items = PanelOf(m, f).items]_vars

\* a was collapsed with its children a.1 and a.2 and its grandchild a.1.1 below it: of
\* five open issues the Open panel shows a and b
C11_Witness ==
    /\ m.collapsedNodes = {idA}
    /\ Len(Bucket(m, "open")) = 5
    /\ Len(m.openPanel.items) = 2
    /\ \E i \in 1..2 : m.openPanel.items[i].task.ID = idA /\ ~m.openPanel.items[i].expanded

----------------------------------------------------------------------------
(* Depth and children of a tree item *)

\* items gives every issue the depth and the hasChildren flag of its place in bucket
Placed(items, bucket) ==
    LET ids == IDsOf(bucket)
    IN  \A i \in 1..Len(items) :
            LET id == items[i].task.ID
            IN  /\ IF ParentID(id) \in ids
                   THEN \E j \in 1..Len(items) :
                            /\ items[j].task.ID = ParentID(id)
                            /\ items[i].depth = items[j].depth + 1
                   ELSE items[i].depth = 0
                /\ items[i].hasChildren
                      <=> \E k \in 1..Len(bucket) : ParentID(bucket[k].ID) = id

\* C12: an issue whose parent is not in the same bucket is a root at depth 0, every
\* other issue is one level below its in-bucket parent, and hasChildren is true exactly
\* when an issue of the same bucket has this issue as its parent
C12_DepthAndChildren ==
    \A f \in Panels : Placed(PanelOf(m, f).items, Bucket(m, PanelStatus(f)))

\* a.1 is closed: its child a.1.1 is a root of the Open panel, next to a with a.2 one
\* level below it, and a.1 is a root without children in the Closed panel
C12_Witness ==
    /\ \E i \in 1..Len(m.openPanel.items) :
          m.openPanel.items[i].task.ID = idA11 /\ m.openPanel.items[i].depth = 0
    /\ \E i \in 1..Len(m.openPanel.items) :
          m.openPanel.items[i].task.ID = idA2 /\ m.openPanel.items[i].depth = 1
    /\ \E i \in 1..Len(m.openPanel.items) :
          m.openPanel.items[i].task.ID = idA /\ m.openPanel.items[i].hasChildren
    /\ \E i \in 1..Len(m.closedPanel.items) :
          /\ m.closedPanel.items[i].task.ID = idA1
          /\ m.closedPanel.items[i].depth = 0
          /\ ~m.closedPanel.items[i].hasChildren

----------------------------------------------------------------------------
(* Filtering and bucketing *)

\* query occurs in text when letter case is ignored
OccursIn(query, text) ==
    \E off \in 0..(Len(text) - Len(query)) :
        \A k \in 1..Len(query) : LowerOf(text[off + k]) = LowerOf(query[k])

\* the rule of C13 for the bucket of status
InBucket(t, status, query, preset) ==
    /\ t.Status = status
    /\ (query = EmptyStr \/ OccursIn(query, t.Title) \/ OccursIn(query, t.ID))
    /\ CASE preset = FilterAll -> TRUE
         [] preset = FilterOpen -> t.Status # "closed"
         [] preset = FilterClosed -> t.Status = "closed"
         [] preset = FilterReady -> t.Status # "closed" /\ Len(t.BlockedBy) = 0

\* the snapshot of the scenario: a and a.1 open, a.2 closed
SnapScenario ==
    Snapshot((idA :> St("open")) @@ (idA1 :> St("open")) @@ (idA2 :> St("closed")), {})

\* C13: with nothing collapsed, a panel shows an issue exactly when the issue has the
\* panel's status, matches the text query (case-insensitive substring of title or
\* identifier, the empty query matching everything) and passes the preset; Open-only
\* over {a open, a.1 open, a.2 closed} shows [a, a.1] in the Open panel
C13_BucketRule ==
    /\ m.collapsedNodes = {} =>
          \A f \in Panels : \A i \in 1..Len(m.tasks) :
              (\E j \in 1..Len(PanelOf(m, f).items) :
                    PanelOf(m, f).items[j].task = m.tasks[i])
                <=> InBucket(m.tasks[i], PanelStatus(f), m.filterQuery, m.filterMode)
    /\ (m.tasks = SnapScenario.tasks /\ m.filterMode = FilterOpen /\ m.filterQuery = EmptyStr)
          => ItemIDs(m.openPanel.items) = <<idA, idA1>>

\* the scenario: Open-only over {a open, a.1 open, a.2 closed}, the Closed panel empty
C13_Witness ==
    /\ m.tasks = SnapScenario.tasks
    /\ m.filterMode = FilterOpen
    /\ m.filterQuery = EmptyStr
    /\ ItemIDs(m.openPanel.items) = <<idA, idA1>>
    /\ m.closedPanel.items = <<>>

----------------------------------------------------------------------------
(* Sorting of sibling groups *)

\* the sibling group of an issue in a bucket with identifiers ids: its parent when the
\* parent is in the bucket, the empty key of the roots otherwise
GroupKey(id, ids) == IF ParentID(id) \in ids THEN ParentID(id) ELSE EmptyStr

\* no two entries of one sibling group are in the inverse order of the comparator
SiblingsSorted(items, ids, kind) ==
    \A i, j \in 1..Len(items) :
        (i < j /\ GroupKey(items[i].task.ID, ids) = GroupKey(items[j].task.ID, ids))
            => ~Less(kind, items[j].task, items[i].task)

ActiveSort(mm, f) == IF f = FocusClosed THEN SortClosedAt ELSE mm.sortMode

ItemSet(items) == {items[i] : i \in 1..Len(items)}

\* C14: every sibling group of a flattened sequence is ordered by the active comparator,
\* and a change of the sort mode only reorders siblings: the entries stay the same and
\* every node stays inside the contiguous subtree of its parent
C14_SiblingSort ==
    [][\A f \in Panels :
          /\ SiblingsSorted(PanelOf(m', f).items, IDsOf(Bucket(m', PanelStatus(f))),
                            ActiveSort(m', f))
          /\ m'.sortMode # m.sortMode =>
                /\ ItemSet(PanelOf(m', f).items) = ItemSet(PanelOf(m, f).items)
                /\ Len(PanelOf(m', f).items) = Len(PanelOf(m, f).items)
                /\ PreOrder(PanelOf(m', f).items, Bucket(m', PanelStatus(f)),
                            m'.collapsedNodes)]_vars

\* five open issues sorted by creation time, oldest first: a before b, and below a its
\* children a.2 before a.1, with a.1.1 below a.1
C14_Witness ==
    /\ m.sortMode = SortCreatedAsc
    /\ ItemIDs(m.openPanel.items) = <<idA, idA2, idA1, idA11, idB>>

----------------------------------------------------------------------------
(* The default order *)

\* the siblings of items are in priority order, most recently updated first among equals
DefaultOrder(items, ids) ==
    \A i, j \in 1..Len(items) :
        (i < j /\ GroupKey(items[i].task.ID, ids) = GroupKey(items[j].task.ID, ids))
            => \/ items[i].task.Priority < items[j].task.Priority
               \/ /\ items[i].task.Priority = items[j].task.Priority
                  /\ items[i].task.UpdatedAt >= items[j].task.UpdatedAt

Priorities(items) == [i \in 1..Len(items) |-> items[i].task.Priority]

\* C15: under the default sort mode the sibling groups of the In Progress and Open
\* panels are in priority order ascending, equal priorities most recently updated
\* first; issues of priorities 2, 0, 2, 1 are shown as 0, 1, 2, 2
C15_DefaultOrder ==
    m.sortMode = SortDefault =>
        \A f \in {FocusInProgress, FocusOpen} :
            /\ DefaultOrder(PanelOf(m, f).items, IDsOf(Bucket(m, PanelStatus(f))))
            /\ m.tasks = PrioritySnapshot(PanelStatus(f)).tasks
                  => /\ Priorities(PanelOf(m, f).items) = <<0, 1, 2, 2>>
                     /\ ItemIDs(PanelOf(m, f).items) = <<idD, idF, idE, idC>>

\* the four in-progress issues of priorities 2, 0, 2, 1 are shown under the default sort
C15_Witness ==
    /\ m.sortMode = SortDefault
    /\ m.tasks = PrioritySnapshot("in_progress").tasks
    /\ Priorities(m.inProgressPanel.items) = <<0, 1, 2, 2>>
    /\ m.inProgressPanel.items[3].task.UpdatedAt > m.inProgressPanel.items[4].task.UpdatedAt

----------------------------------------------------------------------------
(* The order of the Closed panel *)

\* a is not shown after b by closing time: a closed no earlier, or b has no closing time
ClosedBefore(a, b) ==
    \/ b.ClosedAt = NoTime
    \/ a.ClosedAt # NoTime /\ a.ClosedAt >= b.ClosedAt

ClosedTimes(items) == [i \in 1..Len(items) |-> items[i].task.ClosedAt]

\* C16 (as the code has it): whatever the sort mode, the siblings of the Closed panel
\* are in order of closing time, latest first, those without a closing time last
C16_ClosedSiblingOrder ==
    \A i, j \in 1..Len(m.closedPanel.items) :
        (/\ i < j
         /\ GroupKey(m.closedPanel.items[i].task.ID, IDsOf(Bucket(m, "closed")))
              = GroupKey(m.closedPanel.items[j].task.ID, IDsOf(Bucket(m, "closed"))))
            => ClosedBefore(m.closedPanel.items[i].task, m.closedPanel.items[j].task)

\* C16 (as stated): the whole Closed panel is in order of closing time, latest first,
\* those without a closing time last
C16_ClosedBucketOrder ==
    \A i, j \in 1..Len(m.closedPanel.items) :
        i < j => ClosedBefore(m.closedPanel.items[i].task, m.closedPanel.items[j].task)

\* five closed issues on three levels under a sort mode other than the default: the
\* roots and the children of a are in closing order, a.1 (never given a closing time)
\* after a.2 and before its own child
C16_Witness ==
    /\ m.sortMode = SortCreatedAsc
    /\ ItemIDs(m.closedPanel.items) = <<idB, idA, idA2, idA1, idA11>>
    /\ ClosedTimes(m.closedPanel.items) = <<9, 5, 7, NoTime, 6>>

----------------------------------------------------------------------------
(* The double click of the board *)

\* the columns on screen
ShownColumns ==
    { col \in 0..(totalColumns - 1) :
        col >= m.boardColumnOffset /\ col < m.boardColumnOffset + visibleCols(m.width) }

\* a left click on the top left corner of the card at (col, row)
CardClick(col, row) ==
    [button |-> "left", ctrl |-> FALSE,
     x |-> (col - m.boardColumnOffset) * GoDiv(m.width, visibleCols(m.width)),
     y |-> colTop + 1 + cardHeight * row]

CardsOf(col) == getBoardColumns(m.tasks, m.readyIDs)[col]

\* the last recorded click was on (col, row), less than 300 ms ago
Recorded(col, row) ==
    /\ m.lastClickTime # ZeroTime
    /\ m.lastClickColumn = col
    /\ m.lastClickRow = row
    /\ now - m.lastClickTime < 300

\* what a left click on the card at (col, row) does now
Clicked(col, row) == handleMouseEvent(m, CardClick(col, row), now)

\* C17: in the board view a left click on an existing card opens the detail view of
\* that card exactly when the last recorded click was on the same column and row less
\* than 300 ms earlier; otherwise it only selects the card and records the time, the
\* column and the row of the click
C17_DoubleClick ==
    (m.mode = ViewBoard /\ m.width > 0) =>
        \A col \in ShownColumns :
            \A row \in 0..(Len(CardsOf(col)) - 1) :
                IF Recorded(col, row)
                THEN /\ Clicked(col, row).m.mode = ViewDetail
                     /\ Clicked(col, row).m.previousMode = ViewBoard
                     /\ Clicked(col, row).m.selected = CardsOf(col)[row + 1].ID
                ELSE /\ Clicked(col, row).cmds = NoCmd
                     /\ Clicked(col, row).m =
                            [m EXCEPT !.boardColumn = col, !.boardRow = row,
                                      !.selected = CardsOf(col)[row + 1].ID,
                                      !.lastClickTime = now,
                                      !.lastClickColumn = col, !.lastClickRow = row]

\* a card was clicked at time 0, it is now 150 ms later, and a click on the same card
\* opens the detail view
C17_Witness ==
    /\ m.mode = ViewBoard
    /\ m.lastClickTime = 0
    /\ now = 150
    /\ m.lastClickColumn \in ShownColumns
    /\ m.lastClickRow < Len(CardsOf(m.lastClickColumn))
    /\ Clicked(m.lastClickColumn, m.lastClickRow).m.mode = ViewDetail

\* a card was clicked at time 0, it is now 400 ms later, and a click on the same card
\* is a single click again
C17_LateClick ==
    /\ m.mode = ViewBoard
    /\ m.lastClickTime = 0
    /\ now = 400
    /\ m.lastClickColumn \in ShownColumns
    /\ m.lastClickRow < Len(CardsOf(m.lastClickColumn))
    /\ Clicked(m.lastClickColumn, m.lastClickRow).m.mode = ViewBoard
    /\ Clicked(m.lastClickColumn, m.lastClickRow).m.lastClickTime = 400

----------------------------------------------------------------------------
(* Cycling the focus *)

\* the cycle keys reach cyclePanelFocus
CanCycle == Running /\ m.mode = ViewList /\ ~m.searchMode

\* the model after the key of NextView (direction 1) or PrevView (direction -1)
Cycled(direction) == UpdateKey(m, IF direction = 1 THEN "l" ELSE "h").m

\* the panel n steps from f in the cyclic order In Progress, Open, Closed
PanelAfter(f, direction, n) == (f + n * direction + 3 * n) % 3

HasItems(f) == Len(PanelOf(m, f).items) > 0

\* the first panel in the given direction from f, f itself last, that satisfies shown
NextWhere(shown(_), f, direction) ==
    IF shown(PanelAfter(f, direction, 1)) THEN PanelAfter(f, direction, 1)
    ELSE IF shown(PanelAfter(f, direction, 2)) THEN PanelAfter(f, direction, 2)
    ELSE f

\* Open and Closed are always in the cycle, In Progress when it has entries
InCycle(f) == f # FocusInProgress \/ HasItems(f)

\* C18 (as stated): a cycle step moves the focus to the next panel in its direction that
\* has at least one entry, skipping every panel without entries and wrapping around
C18_SkipsEmptyPanels ==
    (CanCycle /\ \E f \in Panels : HasItems(f)) =>
        \A direction \in {1, -1} :
            Cycled(direction).focusedPanel = NextWhere(HasItems, m.focusedPanel, direction)

\* C18 (as the code has it): from a focused panel that is in the cycle, a cycle step
\* moves the focus to the next panel in its direction that is in the cycle, wrapping
\* around, where only an In Progress panel without entries is left out of the cycle
C18_SkipsHiddenInProgress ==
    (CanCycle /\ InCycle(m.focusedPanel)) =>
        \A direction \in {1, -1} :
            Cycled(direction).focusedPanel = NextWhere(InCycle, m.focusedPanel, direction)

\* the focus has been moved to the Closed panel of a snapshot without issues in
\* progress; a step forward wraps around, skips In Progress and lands on Open, where a
\* step backward lands as well
C18_Witness ==
    /\ CanCycle
    /\ m.tasks # <<>>
    /\ ~HasItems(FocusInProgress)
    /\ m.focusedPanel = FocusClosed
    /\ Cycled(1).focusedPanel = FocusOpen
    /\ Cycled(-1).focusedPanel = FocusOpen

\* C19: whenever the In Progress panel is empty, a cycle step forward from the Closed
\* panel or from the In Progress position itself lands on Open
C19_EmptyInProgressLandsOnOpen ==
    (CanCycle /\ ~HasItems(FocusInProgress) /\ m.focusedPanel \in {FocusClosed, FocusInProgress})
        => Cycled(1).focusedPanel = FocusOpen

\* before the first snapshot the focus is on the empty In Progress panel and a step
\* forward lands on Closed
C19_LandsOnClosed ==
    /\ CanCycle
    /\ m.tasks = <<>>
    /\ m.focusedPanel = FocusInProgress
    /\ ~HasItems(FocusInProgress)
    /\ Cycled(1).focusedPanel = FocusClosed

----------------------------------------------------------------------------
(* The Closed panel *)

\* C20: the Closed panel is collapsed exactly when it does not have the focus
C20_CollapsedIffUnfocused ==
    /\ m.closedPanel.collapsed <=> m.focusedPanel # FocusClosed
    /\ m.closedPanel.focused <=> m.focusedPanel = FocusClosed

\* the Closed panel has been given the focus, is expanded and has entries, and the
\* next cycle step collapses it
C20_Witness ==
    /\ CanCycle
    /\ m.focusedPanel = FocusClosed
    /\ ~m.closedPanel.collapsed
    /\ HasItems(FocusClosed)
    /\ Cycled(1).closedPanel.collapsed

----------------------------------------------------------------------------
(* The focus after the first snapshot *)

\* no snapshot has been applied so far and this step applies one
FirstSnapshotApplied ==
    /\ m.tasks = <<>>
    /\ m.focusedPanel = FocusInProgress
    /\ inflight' = inflight - 1
    /\ ~m'.err

\* HasItems in the next state
HasItemsNext(f) == Len(PanelOf(m', f).items) > 0

----------------------------------------------------------------------------
(* A failed fetch *)

\* this step processes the tasksLoadedMsg of a fetch that failed
FetchFailed == inflight' = inflight - 1 /\ m'.err

----------------------------------------------------------------------------
(* Operations without a selection *)

\* the keys of navigation within a panel or a column, of opening the detail view, of
\* the edit dialogs, of delete and copy, and of the custom commands
NoSelectionKeys ==
    {"k", "j", "g", "G", "ctrl+u", "pgdown", "enter", "e", "s", "p", "t", "d", "n", "C",
     "x", "y"} \cup CustomKeys

Cursors(mm) ==
    <<mm.inProgressPanel.cursor, mm.openPanel.cursor, mm.closedPanel.cursor,
      mm.boardColumn, mm.boardRow>>

\* the key does nothing mm could show: same view, same cursors, no command
NoOp(mm, key) ==
    /\ UpdateKey(mm, key).m.mode = mm.mode
    /\ Cursors(UpdateKey(mm, key).m) = Cursors(mm)
    /\ UpdateKey(mm, key).cmds = NoCmd

OnEmptyPanel == CanCycle /\ ~HasItems(m.focusedPanel)

OnEmptyColumn ==
    /\ Running
    /\ m.mode = ViewBoard
    /\ ~m.searchMode
    /\ getBoardColumns(m.tasks, m.readyIDs)[m.boardColumn] = <<>>

\* C23: on an empty panel and on an empty board column nothing is selected, and the
\* keys of navigation within it, open detail, edit, delete, copy and custom commands
\* leave the view and all cursors unchanged and issue no command
C23_NoSelectionNoOp ==
    /\ OnEmptyPanel =>
          /\ getSelectedTask(m) = EmptyStr
          /\ \A key \in NoSelectionKeys : NoOp(m, key)
    /\ OnEmptyColumn =>
          /\ getBoardSelectedTask(m) = EmptyStr
          /\ \A key \in NoSelectionKeys : NoOp(m, key)

\* the column under the board cursor has been emptied by a refresh while the row was
\* not the first one, and the up key moves the row
C23_RowMovesOnEmptyColumn ==
    /\ OnEmptyColumn
    /\ m.boardRow > 0
    /\ UpdateKey(m, "k").m.boardRow = m.boardRow - 1

\* the list panels alone: on an empty focused panel the keys do nothing
C23_EmptyPanelNoOp ==
    OnEmptyPanel =>
        /\ getSelectedTask(m) = EmptyStr
        /\ \A key \in NoSelectionKeys : NoOp(m, key)

----------------------------------------------------------------------------
(* Dialogs on an issue that a refresh has removed *)

\* the keys that complete the dialog of each view
CompleteKeys(mode) ==
    (IF mode = ViewEditText THEN {"ctrl+s"} ELSE {"enter"}) \cup ShortcutsOf(mode)

\* C24: while a dialog or the detail view is open the issue it refers to is in the
\* snapshot or the selection is empty, and with an empty selection completing the
\* dialog returns to the list without a command to the external tool
C24_GoneIssueIsNoSelection ==
    m.mode \in DialogModes \cup {ViewDetail} =>
        /\ m.selected # EmptyStr => m.selected \in IDsOf(m.tasks)
        /\ (m.selected = EmptyStr /\ m.mode \in DialogModes) =>
              \A key \in CompleteKeys(m.mode) :
                  /\ UpdateKey(m, key).cmds = NoCmd
                  /\ UpdateKey(m, key).m.mode = ViewList

\* the title dialog is open on an issue that a refresh has removed from the snapshot,
\* and the enter key sends the update to the external tool
C24_UpdateOfGoneIssue ==
    /\ m.mode = ViewEditTitle
    /\ m.selected # EmptyStr
    /\ m.selected \notin IDsOf(m.tasks)
    /\ UpdateKey(m, "enter").cmds = <<"update">>

----------------------------------------------------------------------------
(* Degenerate terminal sizes *)

\* C25: whatever the terminal size and the events, no handler divides by zero, no panel
\* gets a negative width or height, and at least one board column is visible
C25_GeometrySane ==
    /\ ~panicked
    /\ \A f \in Panels : PanelOf(m, f).width >= 0 /\ PanelOf(m, f).height >= 0
    /\ visibleCols(m.width) >= 1

\* the board is open at width 0 and a mouse event has divided by the column width
C25_DivideByZero ==
    /\ panicked
    /\ m.mode = ViewBoard
    /\ m.width = 0
    /\ GoDiv(m.width, visibleCols(m.width)) = 0

----------------------------------------------------------------------------
(* The regions of the panels *)

\* the pointer positions tried: every row of the terminal and the rows around it, at
\* the left edge, on both sides of the right edge of the panels, and left of column 0
PointerXs == {-1, 0, 49, 50}

PointerYs == -1..21

\* the panels whose half-open rectangle holds (x, y)
PanelsAt(x, y) ==
    { f \in DOMAIN calculatePanelBounds(m) :
        /\ calculatePanelBounds(m)[f].left <= x /\ x < calculatePanelBounds(m)[f].right
        /\ calculatePanelBounds(m)[f].top <= y /\ y < calculatePanelBounds(m)[f].bottom }

LeftClickAt(x, y) ==
    handleMouseEvent(m, [button |-> "left", x |-> x, y |-> y, ctrl |-> FALSE], now).m

\* C26: a left click at (x, y) focuses the panel whose half-open rectangle holds the
\* point; no point lies in two rectangles, so a click focuses at most one panel, a
\* click outside all of them leaves the focus alone, and an In Progress panel without
\* entries has no rectangle
C26_HalfOpenRegions ==
    CanCycle =>
        /\ \A x \in PointerXs, y \in PointerYs :
              /\ Cardinality(PanelsAt(x, y)) <= 1
              /\ \A f \in PanelsAt(x, y) : LeftClickAt(x, y).focusedPanel = f
              /\ PanelsAt(x, y) = {} => LeftClickAt(x, y).focusedPanel = m.focusedPanel
        /\ ~HasItems(FocusInProgress) => FocusInProgress \notin DOMAIN calculatePanelBounds(m)

\* three panels are on screen, the Open panel has the focus, and a click on the last
\* row of the In Progress panel focuses In Progress while a click one row lower does not
C26_Witness ==
    /\ CanCycle
    /\ m.focusedPanel = FocusOpen
    /\ HasItems(FocusInProgress)
    /\ m.width = 100
    /\ LeftClickAt(0, m.inProgressPanel.height - 1).focusedPanel = FocusInProgress
    /\ LeftClickAt(0, m.inProgressPanel.height).focusedPanel = FocusOpen
    /\ LeftClickAt(50, 0).focusedPanel = FocusOpen

----------------------------------------------------------------------------
(* Clicks below the last entry *)

BoardXs == {0, 35, 70, 99}

\* the board column under the pointer at x, while the column width is not zero
ColumnAt(x) ==
    m.boardColumnOffset
        + Min(GoDiv(x, GoDiv(m.width, visibleCols(m.width))), visibleCols(m.width) - 1)

RowAt(y) == GoDiv(y - colTop - 1, cardHeight)

CardsAt(x) == getBoardColumns(m.tasks, m.readyIDs)[ColumnAt(x)]

BoardClickAt(x, y) ==
    handleMouseEvent(m, [button |-> "left", x |-> x, y |-> y, ctrl |-> FALSE], now).m

\* the identifier under the cursor of panel p, none for an empty panel
UnderCursor(p) ==
    IF p.cursor >= 0 /\ p.cursor < Len(p.items) THEN p.items[p.cursor + 1].task.ID ELSE EmptyStr

\* C27: a left click below the last entry selects nothing that does not exist. In list
\* view it focuses the clicked panel, leaves the cursor of every panel where it was and
\* the selection is the entry under that panel's cursor (none in an empty panel); in
\* board view the cursor goes to the clicked column and to its last card (row 0 and no
\* selection in an empty column), and the view stays the board
C27_ClickPastLastItem ==
    Running =>
        /\ m.mode = ViewList /\ ~m.searchMode =>
              \A x \in PointerXs, y \in PointerYs : \A f \in PanelsAt(x, y) :
                  y - calculatePanelBounds(m)[f].top - 1 >= Len(PanelOf(m, f).items) =>
                      /\ LeftClickAt(x, y).focusedPanel = f
                      /\ Cursors(LeftClickAt(x, y)) = Cursors(m)
                      /\ PanelOf(LeftClickAt(x, y), f).items = PanelOf(m, f).items
                      /\ LeftClickAt(x, y).selected = UnderCursor(PanelOf(m, f))
                      /\ LeftClickAt(x, y).mode = ViewList
        /\ m.mode = ViewBoard /\ GoDiv(m.width, visibleCols(m.width)) # 0 =>
              \A x \in BoardXs, y \in PointerYs :
                  (ColumnAt(x) \in 0..(totalColumns - 1) /\ RowAt(y) >= Len(CardsAt(x))) =>
                      /\ BoardClickAt(x, y).mode = ViewBoard
                      /\ BoardClickAt(x, y).boardColumn = ColumnAt(x)
                      /\ BoardClickAt(x, y).boardRow
                            = (IF CardsAt(x) = <<>> THEN 0 ELSE Len(CardsAt(x)) - 1)
                      /\ BoardClickAt(x, y).selected
                            = (IF CardsAt(x) = <<>> THEN EmptyStr
                               ELSE CardsAt(x)[Len(CardsAt(x))].ID)

\* the board cursor is on the first card of a column of several cards and a click near
\* the bottom of that column moves it to the last card
C27_Witness ==
    /\ Running
    /\ m.mode = ViewBoard
    /\ m.width = 100
    /\ m.boardRow = 0
    /\ Len(CardsAt(0)) >= 2
    /\ ColumnAt(0) = m.boardColumn
    /\ RowAt(19) >= Len(CardsAt(0))
    /\ BoardClickAt(0, 19).boardRow = Len(CardsAt(0)) - 1

\* in list view the Open panel has the focus and entries, and a click on an empty row
\* of the Closed panel focuses Closed and keeps every cursor
C27_ListWitness ==
    /\ CanCycle
    /\ m.focusedPanel = FocusOpen
    /\ Len(m.openPanel.items) >= 2
    /\ m.openPanel.cursor >= 1
    /\ \E y \in PointerYs :
          /\ FocusClosed \in PanelsAt(0, y)
          /\ y - calculatePanelBounds(m)[FocusClosed].top - 1 >= Len(m.closedPanel.items)
          /\ LeftClickAt(0, y).focusedPanel = FocusClosed
          /\ LeftClickAt(0, y).openPanel.cursor = m.openPanel.cursor

----------------------------------------------------------------------------
(* Leaving the program *)

Quits(r) == Occurs(r.cmds, "quit") > 0

Ends(r) == Occurs(r.cmds, "quit") > 0 \/ Occurs(r.cmds, "panic") > 0

QuitKey(mm, key) == key = "ctrl+c" \/ (key = "q" /\ mm.mode \in {ViewList, ViewBoard})

MouseMsgs ==
    [button : MouseButtons, x : {0, 60}, y : {0, 10}, ctrl : BOOLEAN]

\* the messages other than key presses end the program by ends(_)
OthersEnd(ends(_)) ==
    \/ \E msg \in MouseMsgs : ends(handleMouseEvent(m, msg, now))
    \/ \E size \in GeometrySizes : ends(UpdateWindowSize(m, size[1], size[2]))
    \/ \E s \in QuitSnapshots, err \in BOOLEAN :
          ends(UpdateTasksLoaded(m, [tasks |-> s.tasks, readyIDs |-> s.readyIDs, err |-> err]))
    \/ \E err \in BOOLEAN : ends(UpdateTaskDeleted(m, err))
    \/ ends(UpdateTick(m))

\* C28: while the program runs, a key press ends it exactly when the key is ctrl+c, or
\* q in the list or board view, and no mouse event, resize, fetch result (failed or
\* not), deletion result or timer tick ends it, neither by a quit request nor by a crash
C28_OnlyQuitKeysEnd ==
    Running =>
        /\ \A key \in OfferedKeys(m) : Ends(UpdateKey(m, key)) <=> QuitKey(m, key)
        /\ ~OthersEnd(Ends)

\* the program was ended in the board view at width 0 without a quit request
C28_EndedByMouse ==
    /\ panicked
    /\ ~quitting
    /\ m.mode = ViewBoard
    /\ m.width = 0

\* a quit is requested by the quit keys and by nothing else
C28_QuitOnlyByKey ==
    Running =>
        /\ \A key \in OfferedKeys(m) : Quits(UpdateKey(m, key)) <=> QuitKey(m, key)
        /\ ~OthersEnd(Quits)

\* the program has quit from a view in which q is not a quit key
C28_QuitByCtrlC ==
    quitting /\ ~panicked /\ m.mode \notin {ViewList, ViewBoard}

----------------------------------------------------------------------------
(* The expand key *)

FocusedItems(mm) == PanelOf(mm, mm.focusedPanel).items

\* the cursor of the focused panel of the list view is on a node that has children
OnParentNode ==
    /\ Running
    /\ m.mode = ViewList
    /\ ~m.searchMode
    /\ m.selected # EmptyStr
    /\ \E i \in 1..Len(FocusedItems(m)) :
          /\ i = PanelOf(m, m.focusedPanel).cursor + 1
          /\ FocusedItems(m)[i].task.ID = m.selected
          /\ FocusedItems(m)[i].hasChildren

Toggled(mm) == UpdateKey(mm, " ").m

FocusedBucketIDs(mm) == IDsOf(Bucket(mm, PanelStatus(mm.focusedPanel)))

----------------------------------------------------------------------------
(* Flattening is repeatable *)

\* the orders in which the keys of a map with these keys can be handed out
Orders(keys) ==
    { o \in [1..Cardinality(keys) -> keys] : \A i, j \in DOMAIN o : o[i] = o[j] => i = j }

\* every run of flattenTree over the bucket of status gives the sequence items
Repeatable(status, kind, items) ==
    \A order \in Orders(GroupKeys(Bucket(m, status))) :
        flattenTreeIn(Bucket(m, status), kind, m.collapsedNodes, order) = items

\* C30: flattening a bucket again with the same collapse-set and the same sort mode
\* gives the same sequence, the same issues in the same order with the same depth,
\* hasChildren and expanded values, in whatever order the runtime iterates over the map
\* of sibling groups: every run gives the sequence the panel holds
C30_FlattenRepeatable ==
    /\ Repeatable("in_progress", m.sortMode, m.inProgressPanel.items)
    /\ Repeatable("open", m.sortMode, m.openPanel.items)
    /\ Repeatable("closed", SortClosedAt, m.closedPanel.items)

\* the Open bucket has three sibling groups (the roots, the children of a and the child
\* of a.1), so that the map can be iterated in six orders, under a sort mode that
\* reorders the children of a, with a.1 collapsed
C30_Witness ==
    /\ Cardinality(GroupKeys(Bucket(m, "open"))) = 3
    /\ m.sortMode = SortCreatedAsc
    /\ m.collapsedNodes = {idA1}
    /\ ItemIDs(m.openPanel.items) = <<idA, idA2, idA1, idB>>

----------------------------------------------------------------------------
(* Parent and depth of an identifier *)

DotFree(s) == \A i \in 1..Len(s) : s[i] # "."

\* C31: an identifier p.c with c a non-empty segment without a dot has the parent p and
\* one more level than p, and an identifier without a dot has the empty parent and
\* depth 0
C31_ParentAndDepth ==
    \A id \in IDsOf(m.tasks) :
        /\ DotFree(id) => ParentID(id) = EmptyStr /\ Depth(id) = 0
        /\ \A k \in 1..(Len(id) - 1) :
              (id[k] = "." /\ DotFree(SubSeq(id, k + 1, Len(id)))) =>
                  /\ ParentID(id) = SubSeq(id, 1, k - 1)
                  /\ Depth(id) = Depth(SubSeq(id, 1, k - 1)) + 1

\* the snapshot holds a.1.a, whose parent a.1 has a dot of its own
C31_Witness ==
    /\ <<"a", ".", "1", ".", "a">> \in IDsOf(m.tasks)
    /\ ParentID(<<"a", ".", "1", ".", "a">>) = <<"a", ".", "1">>
    /\ Depth(<<"a", ".", "1", ".", "a">>) = 2

----------------------------------------------------------------------------
(* The configuration file *)

FileCommands(e) ==
    IF ConfigPath(e) \in DOMAIN e.files /\ e.files[ConfigPath(e)].kind = "yaml"
    THEN e.files[ConfigPath(e)].commands
    ELSE <<>>

\* C33: every command Load returns has a context that is not empty. Load returns one
\* command for each command of the file, in order; a command whose context the file
\* does not give has the context list, and a context the file gives, such as detail,
\* is returned as given (an empty one counts as not given)
C33_ContextNeverEmpty ==
    /\ \A i \in 1..Len(cfg.CustomCommands) : cfg.CustomCommands[i].Context # ""
    /\ Len(Load(env).CustomCommands) = Len(FileCommands(env))
    /\ \A i \in 1..Len(FileCommands(env)) :
          /\ Load(env).CustomCommands[i].Context # ""
          /\ Load(env).CustomCommands[i].Key = FileCommands(env)[i].key
          /\ ~FileCommands(env)[i].context.given
                => Load(env).CustomCommands[i].Context = "list"
          /\ (FileCommands(env)[i].context.given /\ FileCommands(env)[i].context.value # "")
                => Load(env).CustomCommands[i].Context = FileCommands(env)[i].context.value

\* Load has returned two commands, the first with the context list that the file did
\* not give and the second with the context detail that it gave
C33_Witness ==
    /\ cfg.loaded
    /\ ~cfg.err
    /\ Len(cfg.CustomCommands) = 2
    /\ cfg.CustomCommands[1].Context = "list"
    /\ cfg.CustomCommands[2].Context = "detail"
    /\ Len(FileCommands(env)) = 2
    /\ ~FileCommands(env)[1].context.given
    /\ FileCommands(env)[2].context = [given |-> TRUE, value |-> "detail"]

----------------------------------------------------------------------------
(* The loading flag *)

\* C34: the loading flag is set exactly when a snapshot fetch is outstanding, that is
\* started with its tasksLoadedMsg not yet processed
C34_LoadingIffOutstanding == Running => (m.loading <=> inflight > 0)

\* a snapshot has been applied, which cleared the flag, while another fetch is still
\* outstanding
C34_ClearedWhileOutstanding ==
    /\ Running
    /\ ~m.loading
    /\ inflight > 0
    /\ m.tasks # <<>>
    /\ ~m.err

\* the flag is never set without a fetch outstanding
C34_LoadingImpliesOutstanding == m.loading => inflight > 0

----------------------------------------------------------------------------
(* Refreshing goes on *)

FetchStarted == inflight' > inflight

\* C35: when every fetch returns and the timer fires, refreshing is never suppressed
\* for good. Every processed tick arms exactly one further tick, so one timer is armed
\* at all times, and again and again a fetch is started and a fetch result is applied,
\* whatever the loading flag suppressed before
C35_RefreshGoesOn ==
    /\ [](Occurs(UpdateTick(m).cmds, "pollTick") = 1 /\ ticks = 1)
    /\ []<><<FetchStarted>>_vars
    /\ []<><<FetchApplied>>_vars

\* a delete command is outstanding while a fetch is outstanding and the flag is set, so
\* that the reload of the taskDeletedMsg will be suppressed if it comes first
C35_Witness ==
    /\ m.loading
    /\ inflight > 0
    /\ pending > 0
    /\ startLoad(UpdateTaskDeleted(m, FALSE).m).cmds = NoCmd

----------------------------------------------------------------------------
(* Typing the text filter *)

\* the fields a new query may change: the input, the query, the panels, and with the
\* panels the selection and the focus that leaves an emptied In Progress panel
QueryFields ==
    {"searchInput", "filterQuery", "inProgressPanel", "openPanel", "closedPanel",
     "selected", "focusedPanel"}

Refiltered(mm, query) ==
    distributeTasks([mm EXCEPT !.searchInput = query, !.filterQuery = query])

\* r is what a key that only edits the query of mm returns: the character is appended,
\* the query follows the input, the panels are those of the new query, no other field
\* of the model changes and no command is issued
OnlyEditsQuery(mm, r, key) ==
    /\ r.cmds = NoCmd
    /\ r.m.searchInput = Append(mm.searchInput, key)
    /\ r.m.filterQuery = r.m.searchInput
    /\ \A f \in DOMAIN mm \ QueryFields : r.m[f] = mm[f]
    /\ \A f \in Panels :
          PanelOf(r.m, f) = PanelOf(Refiltered(mm, Append(mm.searchInput, key)), f)
    /\ r.m.focusedPanel = Refiltered(mm, Append(mm.searchInput, key)).focusedPanel

\* C36: while the text filter is being typed, a printable key only edits the query and
\* filters the panels again: it does not quit, change the view, act as its list-view
\* binding, or start an edit, a delete or a refresh
C36_TypingOnlyEditsQuery ==
    (Running /\ m.searchMode) =>
        \A key \in TypedChars : OnlyEditsQuery(m, UpdateKey(m, key), key)

\* the program has quit while the filter was being typed, and q quits there
C36_QuitsWhileTyping ==
    /\ quitting
    /\ m.searchMode
    /\ m.mode = ViewList
    /\ Quits(UpdateKey(m, "q"))

\* every printable key but q only edits the query
C36_OtherCharsEditQuery ==
    (Running /\ m.searchMode) =>
        \A key \in TypedChars \ {"q"} : OnlyEditsQuery(m, UpdateKey(m, key), key)

----------------------------------------------------------------------------
(* The delete confirmation *)

\* a step in which the confirmation dialog issues a delete command
DeleteIssued == m.mode = ViewConfirm /\ pending' > pending

\* C37: a confirmation dialog issues at most one delete command. The command is issued
\* only by y or Y and is for the issue that was selected when the dialog was opened,
\* whatever is selected by then; n, N and esc issue none; and once the dialog has issued
\* its delete, a further y does not issue another
C37_OneDeletePerDialog ==
    /\ [](m.mode = ViewConfirm =>
            /\ \A key \in OfferedKeys(m) \ {"y", "Y"} :
                  Occurs(UpdateKey(m, key).cmds, "delete") = 0
            /\ \A key \in {"y", "Y"} : UpdateKey(m, key).cmds = <<"delete">>)
    /\ [][(m.mode # ViewConfirm /\ m'.mode = ViewConfirm) =>
              m'.confirmTaskID = getSelectedTask(m)]_vars
    /\ [][(m.mode = ViewConfirm /\ m'.mode = ViewConfirm) =>
              m'.confirmTaskID = m.confirmTaskID]_vars
    /\ [][DeleteIssued => Occurs(UpdateKey(m', "y").cmds, "delete") = 0]_vars

\* the dialog is still open with its delete command outstanding, and y issues a second
\* delete of the same issue
C37_SecondDelete ==
    /\ Running
    /\ m.mode = ViewConfirm
    /\ pending > 0
    /\ UpdateKey(m, "y").cmds = <<"delete">>
    /\ UpdateKey(m, "y").m.confirmTaskID = m.confirmTaskID

\* what does hold of the dialog: only y and Y issue a delete, one each, and the issue to
\* delete is the one selected when the dialog was opened, however the selection moves
\* while the dialog is open
C37_TargetFixed ==
    /\ [](m.mode = ViewConfirm =>
            /\ \A key \in OfferedKeys(m) \ {"y", "Y"} :
                  Occurs(UpdateKey(m, key).cmds, "delete") = 0
            /\ \A key \in {"y", "Y"} : UpdateKey(m, key).cmds = <<"delete">>)
    /\ [][(m.mode # ViewConfirm /\ m'.mode = ViewConfirm) =>
              m'.confirmTaskID = getSelectedTask(m)]_vars
    /\ [][(m.mode = ViewConfirm /\ m'.mode = ViewConfirm) =>
              m'.confirmTaskID = m.confirmTaskID]_vars

\* the dialog is open for an issue that a refresh has since deselected
C37_SelectionMoved ==
    /\ Running
    /\ m.mode = ViewConfirm
    /\ m.confirmTaskID # EmptyStr
    /\ getSelectedTask(m) # m.confirmTaskID

----------------------------------------------------------------------------
(* What a flattened bucket contains *)

\* items holds every issue of bucket at most once, each of its entries is an issue of
\* the bucket, and an issue it leaves out has a collapsed ancestor in the bucket
Covers(items, bucket, collapsedNodes) ==
    /\ \A i, j \in 1..Len(items) : items[i].task.ID = items[j].task.ID => i = j
    /\ \A i \in 1..Len(items) : \E k \in 1..Len(bucket) : bucket[k] = items[i].task
    /\ \A k \in 1..Len(bucket) :
          (\A i \in 1..Len(items) : items[i].task.ID # bucket[k].ID) =>
              \E a \in IDsOf(bucket) \cap collapsedNodes :
                  IsDescendant(bucket[k].ID, a, IDsOf(bucket))
    /\ IDsOf(bucket) \cap collapsedNodes = {} =>
          /\ Len(items) = Len(bucket)
          /\ \A k \in 1..Len(bucket) : \E i \in 1..Len(items) : items[i].task = bucket[k]

\* C38: the flattened sequence of a bucket holds no issue twice and leaves an issue of
\* the bucket out only if one of its ancestors in the bucket is collapsed; when no
\* identifier of the bucket is in the collapse-set it is a permutation of the bucket
C38_FlattenCoversBucket ==
    \A status \in Statuses :
        /\ Covers(flattenTree(Bucket(m, status), m.sortMode, m.collapsedNodes),
                  Bucket(m, status), m.collapsedNodes)
        /\ Covers(flattenTree(Bucket(m, status), SortClosedAt, m.collapsedNodes),
                  Bucket(m, status), m.collapsedNodes)
        /\ Covers(PanelOf(m, CHOOSE f \in Panels : PanelStatus(f) = status).items,
                  Bucket(m, status), m.collapsedNodes)

\* the Open bucket holds a.1 and a.1.1 without a, and b: a.1 is a root although its
\* identifier has a dot; with a.1 collapsed only a.1.1 is left out, and the Closed
\* bucket, which holds a alone, is shown whole
C38_Witness ==
    /\ IDsOf(Bucket(m, "open")) = {idA1, idA11, idB}
    /\ IDsOf(Bucket(m, "closed")) = {idA}
    /\ m.collapsedNodes = {idA1}
    /\ {m.openPanel.items[i].task.ID : i \in 1..Len(m.openPanel.items)} = {idA1, idB}
    /\ Len(m.closedPanel.items) = 1

----------------------------------------------------------------------------
(* The focused panel *)

\* the panels whose focused flag is set
FlaggedPanels(mm) == {f \in Panels : PanelOf(mm, f).focused}

\* the focused panel of mm is one of its visible panels
FocusShown(mm) ==
    \E i \in 1..Len(getVisiblePanels(mm)) : getVisiblePanels(mm)[i] = mm.focusedPanel

\* this step processes the tasksLoadedMsg of a fetch that succeeded
SnapshotApplied == inflight' < inflight /\ ~m'.err

\* C39: in every state exactly one panel has its focused flag set, the panel named by
\* focusedPanel; a step that applies a snapshot leaves the focus on a visible panel, and
\* so does every step taken with the focus on a visible panel, so that from the first
\* snapshot on In Progress is never the focused panel while it has no items
C39_OneFocusedPanel ==
    /\ [](FlaggedPanels(m) = {m.focusedPanel})
    /\ [][SnapshotApplied => FocusShown(m')]_vars
    /\ [][FocusShown(m) => FocusShown(m')]_vars

\* the focus was on In Progress when a snapshot without issues in progress arrived: the
\* focus is on Open now, and In Progress has lost its flag
C39_Witness ==
    /\ m.tasks # <<>>
    /\ ~isInProgressVisible(m)
    /\ m.focusedPanel = FocusOpen
    /\ FlaggedPanels(m) = {FocusOpen}
    /\ FlaggedPanels(UpdateKey(m, "h").m) = {FocusClosed}
    /\ \E s \in FocusSnapshots :
          /\ isInProgressVisible(UpdateTasksLoaded(m, [tasks |-> s.tasks,
                                      readyIDs |-> s.readyIDs, err |-> FALSE]).m)
          /\ FocusShown(UpdateTasksLoaded(UpdateTasksLoaded(m, [tasks |-> s.tasks,
                                      readyIDs |-> s.readyIDs, err |-> FALSE]).m,
                                      [tasks |-> m.tasks, readyIDs |-> m.readyIDs,
                                       err |-> FALSE]).m)

----------------------------------------------------------------------------
(* Closing the detail view *)

\* the models that the inputs which close the detail view lead to: esc, enter and a
\* left click anywhere
DetailClosings ==
    {UpdateKey(m, "esc").m, UpdateKey(m, "enter").m}
        \cup {handleMouseEvent(m, [button |-> "left", x |-> x, y |-> y, ctrl |-> FALSE],
                               now).m : x \in {0, 60}, y \in {0, 10}}

\* C40: the detail view is opened from the list view or from the board view only, and
\* remembers which; the remembered origin does not change while the detail view is
\* open; esc, enter and a click close it to the remembered origin and reset the origin
\* to the list view. So closing returns to the view the detail view was opened from,
\* and a detail view opened from the list never returns to the board
C40_DetailReturnsToOrigin ==
    /\ [][(m.mode # ViewDetail /\ m'.mode = ViewDetail) =>
              m.mode \in {ViewList, ViewBoard} /\ m'.previousMode = m.mode]_vars
    /\ [][(m.mode = ViewDetail /\ m'.mode = ViewDetail) =>
              m'.previousMode = m.previousMode]_vars
    /\ [](m.mode = ViewDetail =>
            /\ m.previousMode \in {ViewList, ViewBoard}
            /\ \A c \in DetailClosings :
                  c.mode = m.previousMode /\ c.previousMode = ViewList)

\* the detail view was opened from the board: it closes to the board, and after b has
\* led to the list view, enter opens a detail view that closes to the list
C40_Witness ==
    /\ Running
    /\ m.mode = ViewDetail
    /\ m.previousMode = ViewBoard
    /\ \A c \in DetailClosings : c.mode = ViewBoard
    /\ UpdateKey(UpdateKey(m, "esc").m, "b").m.mode = ViewList
    /\ UpdateKey(UpdateKey(UpdateKey(m, "esc").m, "b").m, "enter").m.mode = ViewDetail
    /\ UpdateKey(UpdateKey(UpdateKey(UpdateKey(m, "esc").m, "b").m, "enter").m, "esc").m.mode
          = ViewList

\* a detail view opened from the list
C40_ListWitness ==
    /\ Running
    /\ m.mode = ViewDetail
    /\ m.previousMode = ViewList
    /\ m.tasks # <<>>
    /\ \A c \in DetailClosings : c.mode = ViewList

\* a double click on a card of the board opens the detail view, from where ? leads to
\* the help view, which closes to the list view
C40_DoubleClickWitness ==
    /\ Running
    /\ m.mode = ViewBoard
    /\ \E x \in {0, 35, 70}, y \in {2, 6, 18} :
          /\ handleMouseEvent(m, [button |-> "left", x |-> x, y |-> y, ctrl |-> FALSE],
                              now).m.mode = ViewDetail
          /\ UpdateKey(UpdateKey(handleMouseEvent(m, [button |-> "left", x |-> x, y |-> y,
                                                      ctrl |-> FALSE], now).m, "?").m,
                       "esc").m.mode = ViewList

====
